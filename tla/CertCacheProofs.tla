-------------------------- MODULE CertCacheProofs --------------------------
(***************************************************************************)
(* What holds of the certificates of certs.py for any number of threads,   *)
(* hosts and connections, and any moments at which the process is killed.  *)
(*                                                                         *)
(* None of the properties is inductive.  A thread goes wrong because of    *)
(* what it finds in a file, so the invariant has to say of every file when *)
(* it is what: as long as nobody has disturbed the making of the CA, one   *)
(* thread at most is at it, the key file is missing until that thread has  *)
(* opened it and truncated until it has written it (CaMadeOnce), and every *)
(* thread that uses the CA does so with both files in place (CaShared).    *)
(* MadeOnce says the same of the files of one host.  The key file is       *)
(* written last: that is what both rest on.                                *)
(***************************************************************************)
EXTENDS CertCache, TLAPS

---------------------------------------------------------------------------
(* The inductive invariant. *)

(* What an unlocked write of open(), write() and close() leaves behind. *)
Complete(content) == content \notin {Missing, Truncated}

(* Both files of the CA are there and belong together. *)
CaDone == Complete(caKey) /\ caCert = caKey

(* Both files of h are there and belong together. *)
Finished(h) == Complete(key[h]) /\ crt[h].pair = key[h]

MakingHost(t, h) == host[t] = h /\ pc[t] \in Making

(* Files that have been opened stay. *)
Opened ==
  \A t \in Threads :
    pc[t] \in {"writeCrt", "openKey", "writeKey", "loadCrt"} => crt[host[t]].pair # Missing

(* One thread at most makes the CA.  It finds no key, and until its own is *)
(* written the CA does not exist for the others.                           *)
CaMadeOnce ==
  /\ \A t, u \in Threads : pc[t] \in MakingCa /\ pc[u] \in MakingCa => t = u
  /\ \A t \in Threads :
       pc[t] \in MakingCa =>
         /\ ca[t].cert = Number(self[t]) /\ ca[t].key = Number(self[t])
         /\ caKey = IF pc[t] = "writeCaKey" THEN Truncated ELSE Missing
         /\ pc[t] \in {"openCaKey", "writeCaKey"} => caCert = ca[t].cert
  /\ caKey # Missing => CaDone \/ \E t \in Threads : pc[t] = "writeCaKey"

(* What reads the CA, or was signed by it, finds the one CA there is. *)
CaShared ==
  /\ \A t \in Threads :
       pc[t] \in {"readCaCert", "readCaKey", "openCrt", "writeCrt"} => CaDone
  /\ \A t \in Threads : pc[t] \in {"openCrt", "writeCrt"} => ca[t].key = caKey
  /\ \A h \in Hosts : Complete(crt[h].pair) => CaDone /\ crt[h].signer = caCert
  /\ \A t \in Threads :
       pc[t] \in {"loadKey", "serving"} => CaDone /\ leaf[t].signer = caCert

(* The same for the two files of h and the threads that serve h. *)
MadeOnce(h) ==
  /\ \A t, u \in Threads : MakingHost(t, h) /\ MakingHost(u, h) => t = u
  /\ \A t \in Threads :
       MakingHost(t, h) =>
         /\ key[h] = IF pc[t] = "writeKey" THEN Truncated ELSE Missing
         /\ pc[t] \in {"openKey", "writeKey"} => crt[h].pair = Number(self[t])
  /\ key[h] # Missing =>
       Finished(h) \/ \E t \in Threads : host[t] = h /\ pc[t] = "writeKey"
  /\ \A t \in Threads :
       host[t] = h /\ pc[t] \in {"loadCrt", "loadKey"} => Finished(h)
  /\ \A t \in Threads :
       host[t] = h /\ pc[t] = "loadKey" => leaf[t].pair = crt[h].pair

IInv ==
  /\ TypeOK
  /\ Opened
  /\ ~caDisturbed => CaMadeOnce /\ CaShared
  /\ \A h \in Hosts \ disturbed : MadeOnce(h)
  /\ FailsOnlyDisturbed

---------------------------------------------------------------------------
(* Types. *)

PCs == Making \cup {"idle", "loadCrt", "loadKey", "serving", "failed"}

(* What a connection writes is one of the contents, and a complete one. *)
LEMMA NumberType ==
  ASSUME NEW n \in 0 .. MaxConns
  PROVE  Number(n) \in Contents /\ Complete(Number(n))
BY BoundAssumption DEF Number, Contents, Complete, Missing, Truncated

(* The two contents that are not written by a connection. *)
LEMMA EmptyType ==
  /\ Missing \in Contents /\ Truncated \in Contents /\ Missing # Truncated
  /\ NoCertificate \in Certificate
  /\ [pair |-> Truncated, signer |-> Missing] \in Certificate
<1>1. Missing \in Contents /\ Truncated \in Contents /\ Missing # Truncated
  BY BoundAssumption DEF Contents, Missing, Truncated
<1> QED
  BY <1>1 DEF NoCertificate, Certificate

(* The initial states have the types that TypeOK names. *)
LEMMA InitTypeOK == Init => TypeOK
<1> SUFFICES ASSUME Init PROVE TypeOK
  OBVIOUS
<1>1. 0 \in 0 .. MaxConns
  BY BoundAssumption
<1>2. "idle" \in PCs
  BY DEF PCs
<1> QED
  BY <1>1, <1>2, EmptyType DEF Init, TypeOK, PCs

(* Every step keeps the types. *)
LEMMA NextTypeOK ==
  ASSUME TypeOK, [Next]_vars
  PROVE  TypeOK'
<1>0. /\ caCert \in Contents /\ caKey \in Contents
      /\ crt \in [Hosts -> Certificate] /\ key \in [Hosts -> Contents]
      /\ started \in 0 .. MaxConns
      /\ pc \in [Threads -> PCs] /\ host \in [Threads -> Hosts]
      /\ self \in [Threads -> 0 .. MaxConns]
      /\ ca \in [Threads -> [cert : Contents, key : Contents]]
      /\ leaf \in [Threads -> Certificate]
      /\ caDisturbed \in BOOLEAN /\ disturbed \subseteq Hosts
  BY DEF TypeOK, PCs
<1> USE DEF files
<1>1. ASSUME NEW t \in Threads, NEW h \in Hosts, GetCertForHost(t, h)
      PROVE  TypeOK'
  <2>1. started + 1 \in 0 .. MaxConns /\ started \in 0 .. MaxConns
    BY <1>0, <1>1, BoundAssumption DEF GetCertForHost
  <2>2. pc' \in [Threads -> PCs]
    BY <1>0, <1>1 DEF GetCertForHost, PCs, Making
  <2>3. disturbed' \subseteq Hosts
    BY <1>0, <1>1 DEF GetCertForHost
  <2> QED
    BY <1>0, <1>1, <2>1, <2>2, <2>3 DEF GetCertForHost, TypeOK, PCs
<1>2. ASSUME NEW t \in Threads, Make(t) \/ LoadCrt(t) \/ LoadKey(t)
      PROVE  TypeOK'
  <2>1. ASSUME NEW from, NEW to \in PCs, Goes(t, from, to)
        PROVE  pc' \in [Threads -> PCs]
    BY <1>0, <2>1 DEF Goes
  <2>2. Number(self[t]) \in Contents
    BY <1>0, NumberType
  <2>3. CASE GetCa(t)
    <3>1. pc' \in [Threads -> PCs]
      BY <2>1, <2>3 DEF GetCa, PCs, Making, MakingCa
    <3>2. caDisturbed' \in BOOLEAN
      BY <2>3 DEF GetCa
    <3>3. ca' \in [Threads -> [cert : Contents, key : Contents]]
      BY <1>0, <2>2, <2>3 DEF GetCa
    <3> QED
      BY <1>0, <2>3, <3>1, <3>2, <3>3 DEF GetCa, TypeOK, PCs
  <2>4. CASE ReadCaCert(t)
    <3>1. pc' \in [Threads -> PCs]
      BY <2>1, <2>4 DEF ReadCaCert, PCs, Making
    <3> QED
      BY <1>0, <2>4, <3>1 DEF ReadCaCert, TypeOK, PCs
  <2>5. CASE ReadCaKey(t)
    <3>1. pc' \in [Threads -> PCs]
      BY <2>1, <2>5 DEF ReadCaKey, PCs, Making
    <3> QED
      BY <1>0, <2>5, <3>1 DEF ReadCaKey, TypeOK, PCs
  <2>6. CASE OpenCaCert(t) \/ WriteCaCert(t)
    <3>1. pc' \in [Threads -> PCs]
      BY <2>1, <2>6 DEF OpenCaCert, WriteCaCert, PCs, Making, MakingCa
    <3>2. caCert' \in Contents
      BY <1>0, <2>6, EmptyType DEF OpenCaCert, WriteCaCert
    <3> QED
      BY <1>0, <2>6, <3>1, <3>2 DEF OpenCaCert, WriteCaCert, TypeOK, PCs
  <2>7. CASE OpenCaKey(t) \/ WriteCaKey(t)
    <3>1. pc' \in [Threads -> PCs]
      BY <2>1, <2>7 DEF OpenCaKey, WriteCaKey, PCs, Making, MakingCa
    <3>2. caKey' \in Contents
      BY <1>0, <2>7, EmptyType DEF OpenCaKey, WriteCaKey
    <3> QED
      BY <1>0, <2>7, <3>1, <3>2 DEF OpenCaKey, WriteCaKey, TypeOK, PCs
  <2>8. CASE OpenCrt(t) \/ WriteCrt(t)
    <3>1. pc' \in [Threads -> PCs]
      BY <2>1, <2>8 DEF OpenCrt, WriteCrt, PCs, Making
    <3>2. [pair |-> Number(self[t]), signer |-> ca[t].key] \in Certificate
      BY <1>0, <2>2 DEF Certificate
    <3>3. crt' \in [Hosts -> Certificate]
      BY <1>0, <2>8, <3>2, EmptyType DEF OpenCrt, WriteCrt
    <3> QED
      BY <1>0, <2>8, <3>1, <3>3 DEF OpenCrt, WriteCrt, TypeOK, PCs
  <2>9. CASE OpenKey(t) \/ WriteKey(t)
    <3>1. pc' \in [Threads -> PCs]
      BY <2>1, <2>9 DEF OpenKey, WriteKey, PCs, Making
    <3>2. key' \in [Hosts -> Contents]
      BY <1>0, <2>2, <2>9, EmptyType DEF OpenKey, WriteKey
    <3> QED
      BY <1>0, <2>9, <3>1, <3>2 DEF OpenKey, WriteKey, TypeOK, PCs
  <2>10. CASE LoadCrt(t) \/ LoadKey(t)
    <3>1. pc' \in [Threads -> PCs]
      BY <2>1, <2>10 DEF LoadCrt, LoadKey, PCs
    <3>2. leaf' \in [Threads -> Certificate]
      BY <1>0, <2>10 DEF LoadCrt, LoadKey
    <3> QED
      BY <1>0, <2>10, <3>1, <3>2 DEF LoadCrt, LoadKey, TypeOK, PCs
  <2> QED
    BY <1>2, <2>3, <2>4, <2>5, <2>6, <2>7, <2>8, <2>9, <2>10 DEF Make
<1>3. CASE Restart
  <2>1. pc' \in [Threads -> PCs]
    BY <1>3 DEF Restart, PCs
  <2>2. caDisturbed' \in BOOLEAN
    BY <1>3 DEF Restart
  <2>3. disturbed' \subseteq Hosts
    BY <1>0, <1>3 DEF Restart
  <2> QED
    BY <1>0, <1>3, <2>1, <2>2, <2>3 DEF Restart, TypeOK, PCs
<1>4. CASE UNCHANGED vars
  BY <1>0, <1>4 DEF vars, TypeOK, PCs
<1> QED
  BY <1>1, <1>2, <1>3, <1>4 DEF Next

(* The types that the steps below need. *)
LEMMA Types ==
  ASSUME TypeOK
  PROVE  /\ crt \in [Hosts -> Certificate] /\ key \in [Hosts -> Contents]
         /\ pc \in [Threads -> PCs] /\ host \in [Threads -> Hosts]
         /\ self \in [Threads -> 0 .. MaxConns]
         /\ ca \in [Threads -> [cert : Contents, key : Contents]]
         /\ leaf \in [Threads -> Certificate]
         /\ \A h \in Hosts : crt[h] \in [pair : Contents, signer : Contents]
BY DEF TypeOK, PCs, Certificate

---------------------------------------------------------------------------
(* Files that have been opened stay. *)
LEMMA OpenedStep ==
  ASSUME TypeOK, Opened, [Next]_vars
  PROVE  Opened'
<1>0. /\ crt \in [Hosts -> Certificate] /\ pc \in [Threads -> PCs]
      /\ host \in [Threads -> Hosts]
  BY Types
<1>1. \A t \in Threads : Number(self[t]) # Missing
  BY Types, NumberType DEF Complete
<1> USE DEF files, Opened, Goes
<1>2. ASSUME NEW t \in Threads, NEW h \in Hosts, GetCertForHost(t, h)
      PROVE  Opened'
  BY <1>0, <1>2 DEF GetCertForHost, HostExists
<1>3. ASSUME NEW t \in Threads, GetCa(t) \/ ReadCaCert(t) \/ ReadCaKey(t)
                \/ OpenCaCert(t) \/ WriteCaCert(t) \/ OpenCaKey(t) \/ WriteCaKey(t)
      PROVE  Opened'
  BY <1>0, <1>3 DEF GetCa, ReadCaCert, ReadCaKey, OpenCaCert, WriteCaCert, OpenCaKey,
     WriteCaKey
<1>4. ASSUME NEW t \in Threads, OpenCrt(t)
      PROVE  Opened'
  BY <1>0, <1>4, EmptyType DEF OpenCrt
<1>5. ASSUME NEW t \in Threads, WriteCrt(t)
      PROVE  Opened'
  BY <1>0, <1>1, <1>5 DEF WriteCrt
<1>6. ASSUME NEW t \in Threads, OpenKey(t) \/ WriteKey(t) \/ LoadCrt(t) \/ LoadKey(t)
      PROVE  Opened'
  BY <1>0, <1>6 DEF OpenKey, WriteKey, LoadCrt, LoadKey
<1>7. CASE Restart \/ UNCHANGED vars
  BY <1>7 DEF Restart, vars
<1> QED
  BY <1>2, <1>3, <1>4, <1>5, <1>6, <1>7 DEF Next, Make

---------------------------------------------------------------------------
(* The CA. *)

(* A step that neither starts nor goes on with the making of the CA. *)
LEMMA CaUntouched ==
  ASSUME CaMadeOnce, UNCHANGED <<caCert, caKey>>,
         \A t \in Threads :
           pc'[t] \in MakingCa => pc'[t] = pc[t] /\ ca'[t] = ca[t] /\ self'[t] = self[t],
         \A t \in Threads : pc[t] = "writeCaKey" => pc'[t] = "writeCaKey"
  PROVE  CaMadeOnce'
BY DEF CaMadeOnce, CaDone, Complete

(* While one thread at most makes the CA, the files are as it needs them. *)
LEMMA CaMadeStep ==
  ASSUME TypeOK, CaMadeOnce, CaShared, [Next]_vars, ~caDisturbed'
  PROVE  CaMadeOnce'
<1>0. /\ pc \in [Threads -> PCs] /\ self \in [Threads -> 0 .. MaxConns]
      /\ ca \in [Threads -> [cert : Contents, key : Contents]]
      /\ \A t \in Threads : Complete(Number(self[t]))
  BY Types, NumberType
<1> USE DEF files, Goes
<1>1. ASSUME NEW t \in Threads, NEW h \in Hosts, GetCertForHost(t, h)
      PROVE  CaMadeOnce'
  BY <1>0, <1>1, CaUntouched DEF GetCertForHost, MakingCa
<1>2. ASSUME NEW t \in Threads, GetCa(t)
      PROVE  CaMadeOnce'
  BY <1>0, <1>2 DEF GetCa, MakingCa, CaMadeOnce, CaDone, CaExists, Complete, OthersMakingCa
<1>3. ASSUME NEW t \in Threads, ReadCaCert(t) \/ ReadCaKey(t)
      PROVE  CaMadeOnce'
  BY <1>0, <1>3, CaUntouched DEF ReadCaCert, ReadCaKey, MakingCa
<1>4. ASSUME NEW t \in Threads, OpenCaCert(t)
      PROVE  CaMadeOnce'
  BY <1>0, <1>4 DEF OpenCaCert, MakingCa, CaMadeOnce, CaDone, Complete
<1>5. ASSUME NEW t \in Threads, WriteCaCert(t)
      PROVE  CaMadeOnce'
  BY <1>0, <1>5 DEF WriteCaCert, MakingCa, CaMadeOnce, CaDone, Complete
<1>6. ASSUME NEW t \in Threads, OpenCaKey(t)
      PROVE  CaMadeOnce'
  BY <1>0, <1>6 DEF OpenCaKey, MakingCa, CaMadeOnce, CaDone, Complete
<1>7. ASSUME NEW t \in Threads, WriteCaKey(t)
      PROVE  CaMadeOnce'
  BY <1>0, <1>7 DEF WriteCaKey, MakingCa, CaMadeOnce, CaDone, Complete
<1>8. ASSUME NEW t \in Threads,
             OpenCrt(t) \/ WriteCrt(t) \/ OpenKey(t) \/ WriteKey(t) \/ LoadCrt(t) \/ LoadKey(t)
      PROVE  CaMadeOnce'
  BY <1>0, <1>8, CaUntouched DEF OpenCrt, WriteCrt, OpenKey, WriteKey, LoadCrt, LoadKey,
     MakingCa
<1>9. CASE Restart
  BY <1>0, <1>9, CaUntouched DEF Restart, MakingCa
<1>10. CASE UNCHANGED vars
  BY <1>10, CaUntouched DEF vars
<1> QED
  BY <1>1, <1>2, <1>3, <1>4, <1>5, <1>6, <1>7, <1>8, <1>9, <1>10 DEF Next, Make

(* Once the CA is there, its files are not written again. *)
LEMMA CaIsKept ==
  ASSUME CaMadeOnce, CaDone, [Next]_vars
  PROVE  UNCHANGED <<caCert, caKey>>
<1>1. \A t \in Threads : pc[t] \notin MakingCa
  BY EmptyType DEF CaMadeOnce, CaDone, Complete
<1> QED
  BY <1>1 DEF MakingCa, Next, Make, vars, files, Goes, GetCertForHost, GetCa, ReadCaCert,
     ReadCaKey, OpenCaCert, WriteCaCert, OpenCaKey, WriteCaKey, OpenCrt, WriteCrt, OpenKey,
     WriteKey, LoadCrt, LoadKey, Restart

(* As long as the CA was made once, its users find it and sign with it. *)
LEMMA CaSharedStep ==
  ASSUME TypeOK, Opened, CaMadeOnce, CaShared, [Next]_vars, ~caDisturbed'
  PROVE  CaShared'
<1>0. /\ pc \in [Threads -> PCs] /\ self \in [Threads -> 0 .. MaxConns]
      /\ ca \in [Threads -> [cert : Contents, key : Contents]]
      /\ leaf \in [Threads -> Certificate] /\ crt \in [Hosts -> Certificate]
      /\ host \in [Threads -> Hosts]
      /\ \A h \in Hosts : crt[h] \in [pair : Contents, signer : Contents]
      /\ \A t \in Threads : Complete(Number(self[t]))
  BY Types, NumberType
<1>a. CaDone => CaDone' /\ caCert' = caCert /\ caKey' = caKey
  BY CaIsKept DEF CaDone
<1> USE DEF files, Goes, CaShared
<1>1. ASSUME NEW t \in Threads, NEW h \in Hosts, GetCertForHost(t, h)
      PROVE  CaShared'
  BY <1>0, <1>1, <1>a DEF GetCertForHost
<1>2. ASSUME NEW t \in Threads, GetCa(t)
      PROVE  CaShared'
  <2>1. CaExists => CaDone
    BY <1>2, <1>0 DEF GetCa, CaExists, CaMadeOnce, OthersMakingCa, MakingCa
  <2> QED
    BY <1>0, <1>2, <1>a, <2>1 DEF GetCa
<1>3. ASSUME NEW t \in Threads, ReadCaCert(t)
      PROVE  CaShared'
  BY <1>0, <1>3, <1>a DEF ReadCaCert
<1>4. ASSUME NEW t \in Threads, ReadCaKey(t)
      PROVE  CaShared'
  BY <1>0, <1>4, <1>a DEF ReadCaKey
<1>5. ASSUME NEW t \in Threads, OpenCaCert(t) \/ WriteCaCert(t) \/ OpenCaKey(t)
      PROVE  CaShared'
  BY <1>0, <1>5, <1>a DEF OpenCaCert, WriteCaCert, OpenCaKey
<1>6. ASSUME NEW t \in Threads, WriteCaKey(t)
      PROVE  CaShared'
  <2>1. ~CaDone
    BY <1>6, EmptyType DEF WriteCaKey, CaMadeOnce, MakingCa, CaDone, Complete
  <2>2. CaDone' /\ caKey' = ca[t].key
    BY <1>0, <1>6 DEF WriteCaKey, CaMadeOnce, MakingCa, CaDone
  <2> QED
    BY <1>0, <1>6, <2>1, <2>2 DEF WriteCaKey
<1>7. ASSUME NEW t \in Threads, OpenCrt(t)
      PROVE  CaShared'
  BY <1>0, <1>7, <1>a, EmptyType DEF OpenCrt, Complete
<1>8. ASSUME NEW t \in Threads, WriteCrt(t)
      PROVE  CaShared'
  <2>1. CaDone /\ ca[t].key = caCert
    BY <1>8 DEF WriteCrt, CaDone
  <2> QED
    BY <1>0, <1>8, <1>a, <2>1 DEF WriteCrt
<1>9. ASSUME NEW t \in Threads, OpenKey(t) \/ WriteKey(t)
      PROVE  CaShared'
  BY <1>0, <1>9, <1>a DEF OpenKey, WriteKey
<1>10. ASSUME NEW t \in Threads, LoadCrt(t)
      PROVE  CaShared'
  <2>1. pc'[t] = "loadKey" => Complete(crt[host[t]].pair)
    BY <1>0, <1>10 DEF LoadCrt, Opened, Complete
  <2> QED
    BY <1>0, <1>10, <1>a, <2>1 DEF LoadCrt
<1>11. ASSUME NEW t \in Threads, LoadKey(t)
      PROVE  CaShared'
  BY <1>0, <1>11, <1>a DEF LoadKey
<1>12. CASE Restart
  BY <1>12, <1>a DEF Restart
<1>13. CASE UNCHANGED vars
  BY <1>13, <1>a DEF vars
<1> QED
  BY <1>1, <1>2, <1>3, <1>4, <1>5, <1>6, <1>7, <1>8, <1>9, <1>10, <1>11, <1>12, <1>13
  DEF Next, Make

---------------------------------------------------------------------------
(* The hosts. *)

(* Once the files of h are there, they are not written again. *)
LEMMA HostIsKept ==
  ASSUME TypeOK, NEW h \in Hosts, MadeOnce(h), Finished(h), [Next]_vars
  PROVE  crt'[h] = crt[h] /\ key'[h] = key[h]
<1>1. \A t \in Threads : ~MakingHost(t, h)
  BY EmptyType DEF MadeOnce, Finished, Complete
<1>2. /\ crt \in [Hosts -> Certificate] /\ key \in [Hosts -> Contents]
      /\ host \in [Threads -> Hosts]
  BY Types
<1> QED
  BY <1>1, <1>2 DEF MakingHost, Making, MakingCa, Next, Make, vars, files, Goes, GetCertForHost,
     GetCa, ReadCaCert, ReadCaKey, OpenCaCert, WriteCaCert, OpenCaKey, WriteCaKey, OpenCrt,
     WriteCrt, OpenKey, WriteKey, LoadCrt, LoadKey, Restart

(* While one thread at most makes the files of h, they are as it needs     *)
(* them.                                                                   *)
LEMMA MadeOnceStep ==
  ASSUME TypeOK, NEW h \in Hosts, MadeOnce(h), [Next]_vars, h \notin disturbed'
  PROVE  MadeOnce(h)'
<1>0. /\ crt \in [Hosts -> Certificate] /\ key \in [Hosts -> Contents]
      /\ pc \in [Threads -> PCs] /\ host \in [Threads -> Hosts]
      /\ self \in [Threads -> 0 .. MaxConns] /\ leaf \in [Threads -> Certificate]
      /\ \A t \in Threads : Complete(Number(self[t]))
  BY Types, NumberType
<1> USE DEF files, Goes
<1>1. ASSUME NEW t \in Threads, NEW g \in Hosts, GetCertForHost(t, g)
      PROVE  MadeOnce(h)'
  <2>1. CASE g = h
    <3>1. \A u \in Threads : ~MakingHost(u, h)
      BY <1>1, <2>1 DEF GetCertForHost, OthersMaking, MakingHost, Making, MakingCa
    <3>2. key[h] # Missing => Finished(h)
      BY <3>1 DEF MadeOnce, MakingHost, Making
    <3>3. HostExists(h) => Finished(h)
      BY <3>2 DEF HostExists
    <3>4. ~HostExists(h) => key[h] = Missing
      BY <3>2 DEF HostExists, Finished, Complete
    <3>5. /\ UNCHANGED <<crt, key, leaf>> /\ host'[t] = h
          /\ \A u \in Threads \ {t} : pc'[u] = pc[u] /\ host'[u] = host[u]
          /\ \/ pc'[t] = "loadCrt" /\ Finished(h)
             \/ pc'[t] = "getCa" /\ key[h] = Missing
      BY <1>0, <1>1, <2>1, <3>3, <3>4 DEF GetCertForHost
    <3>6. Finished(h)' = Finished(h)
      BY <3>5 DEF Finished
    <3>7. \A u \in Threads : MakingHost(u, h)' => u = t /\ pc'[t] = "getCa"
      BY <3>1, <3>5 DEF MakingHost, Making, MakingCa
    <3> QED
      BY <3>2, <3>5, <3>6, <3>7 DEF MadeOnce, MakingHost
  <2>2. CASE g # h
    BY <1>0, <1>1, <2>2 DEF GetCertForHost, MadeOnce, MakingHost, Making, MakingCa, Finished
  <2> QED
    BY <2>1, <2>2
<1>2. ASSUME NEW t \in Threads, GetCa(t) \/ ReadCaCert(t) \/ ReadCaKey(t)
      PROVE  MadeOnce(h)'
  BY <1>0, <1>2 DEF GetCa, ReadCaCert, ReadCaKey, Making, MakingCa, MadeOnce, MakingHost,
     Finished, Complete
<1>3. ASSUME NEW t \in Threads,
             OpenCaCert(t) \/ WriteCaCert(t) \/ OpenCaKey(t) \/ WriteCaKey(t)
      PROVE  MadeOnce(h)'
  BY <1>0, <1>3 DEF OpenCaCert, WriteCaCert, OpenCaKey, WriteCaKey, Making, MakingCa,
     MadeOnce, MakingHost, Finished, Complete
<1>4. ASSUME NEW t \in Threads, OpenCrt(t)
      PROVE  MadeOnce(h)'
  BY <1>0, <1>4, EmptyType
  DEF OpenCrt, MadeOnce, MakingHost, Making, Finished, Complete
<1>5. ASSUME NEW t \in Threads, WriteCrt(t)
      PROVE  MadeOnce(h)'
  BY <1>0, <1>5, EmptyType
  DEF WriteCrt, MadeOnce, MakingHost, Making, Finished, Complete
<1>6. ASSUME NEW t \in Threads, OpenKey(t)
      PROVE  MadeOnce(h)'
  BY <1>0, <1>6, EmptyType
  DEF OpenKey, MadeOnce, MakingHost, Making, Finished, Complete
<1>7. ASSUME NEW t \in Threads, WriteKey(t)
      PROVE  MadeOnce(h)'
  <2>1. CASE host[t] = h
    <3>1. /\ key[h] = Truncated /\ crt[h].pair = Number(self[t])
          /\ \A u \in Threads : MakingHost(u, h) => u = t
      BY <1>7, <2>1 DEF WriteKey, MadeOnce, MakingHost, Making
    <3>2. \A u \in Threads : host[u] = h => pc[u] \notin {"loadCrt", "loadKey"}
      BY <3>1 DEF MadeOnce, Finished, Complete
    <3>3. /\ key'[h] = Number(self[t]) /\ crt' = crt /\ host' = host /\ leaf' = leaf
          /\ pc'[t] = "loadCrt" /\ \A u \in Threads \ {t} : pc'[u] = pc[u]
      BY <1>0, <1>7, <2>1 DEF WriteKey
    <3>4. Finished(h)'
      BY <1>0, <3>1, <3>3 DEF Finished
    <3>5. \A u \in Threads : ~MakingHost(u, h)'
      BY <3>1, <3>3 DEF MakingHost, Making, MakingCa
    <3> QED
      BY <3>2, <3>3, <3>4, <3>5 DEF MadeOnce, MakingHost
  <2>2. CASE host[t] # h
    BY <1>0, <1>7, <2>2 DEF WriteKey, MadeOnce, MakingHost, Finished, Complete
  <2> QED
    BY <2>1, <2>2
<1>8. ASSUME NEW t \in Threads, LoadCrt(t) \/ LoadKey(t)
      PROVE  MadeOnce(h)'
  BY <1>0, <1>8 DEF LoadCrt, LoadKey, Making, MakingCa, MadeOnce, MakingHost, Finished,
     Complete
<1>9. CASE Restart
  <2>1. \A t \in Threads : ~(host[t] = h /\ pc[t] = "writeKey")
    BY <1>9 DEF Restart
  <2> QED
    BY <1>0, <1>9, <2>1 DEF Restart, MadeOnce, MakingHost, Making, MakingCa, Finished
<1>10. CASE UNCHANGED vars
  BY <1>10 DEF vars, MadeOnce, MakingHost, Finished, Complete
<1> QED
  BY <1>1, <1>2, <1>3, <1>4, <1>5, <1>6, <1>7, <1>8, <1>9, <1>10 DEF Next, Make

---------------------------------------------------------------------------
(* A thread fails when it reads a truncated file or a pair that does not   *)
(* belong together, and neither is there where nothing was disturbed.      *)
LEMMA FailsStep ==
  ASSUME IInv, [Next]_vars
  PROVE  FailsOnlyDisturbed'
<1>0. /\ pc \in [Threads -> PCs] /\ host \in [Threads -> Hosts]
      /\ FailsOnlyDisturbed
      /\ \A h \in Hosts : h \notin disturbed => MadeOnce(h)
      /\ ~caDisturbed => CaShared
  BY Types DEF IInv
<1> USE DEF files, Goes, FailsOnlyDisturbed
<1>1. ASSUME NEW t \in Threads, NEW h \in Hosts, GetCertForHost(t, h)
      PROVE  FailsOnlyDisturbed'
  BY <1>0, <1>1 DEF GetCertForHost
<1>2. ASSUME NEW t \in Threads, ReadCaCert(t) \/ ReadCaKey(t)
      PROVE  FailsOnlyDisturbed'
  <2>1. ~caDisturbed => pc'[t] # "failed"
    BY <1>0, <1>2 DEF ReadCaCert, ReadCaKey, CaShared, CaDone, Complete
  <2> QED
    BY <1>0, <1>2, <2>1 DEF ReadCaCert, ReadCaKey
<1>3. ASSUME NEW t \in Threads, LoadCrt(t) \/ LoadKey(t)
      PROVE  FailsOnlyDisturbed'
  <2>1. host[t] \notin disturbed => pc'[t] # "failed"
    BY <1>0, <1>3 DEF LoadCrt, LoadKey, MadeOnce, Finished, Complete
  <2> QED
    BY <1>0, <1>3, <2>1 DEF LoadCrt, LoadKey
<1>4. ASSUME NEW t \in Threads, GetCa(t)
      PROVE  FailsOnlyDisturbed'
  BY <1>0, <1>4 DEF GetCa
<1>5. ASSUME NEW t \in Threads,
             OpenCaCert(t) \/ WriteCaCert(t) \/ OpenCaKey(t) \/ WriteCaKey(t)
      PROVE  FailsOnlyDisturbed'
  BY <1>0, <1>5 DEF OpenCaCert, WriteCaCert, OpenCaKey, WriteCaKey
<1>6. ASSUME NEW t \in Threads, OpenCrt(t) \/ WriteCrt(t) \/ OpenKey(t) \/ WriteKey(t)
      PROVE  FailsOnlyDisturbed'
  BY <1>0, <1>6 DEF OpenCrt, WriteCrt, OpenKey, WriteKey
<1>7. CASE Restart \/ UNCHANGED vars
  BY <1>0, <1>7 DEF Restart, vars
<1> QED
  BY <1>1, <1>2, <1>3, <1>4, <1>5, <1>6, <1>7 DEF Next, Make

---------------------------------------------------------------------------
(* In a fresh installation nothing is made and nothing is disturbed. *)
LEMMA InitIInv == Init => IInv
<1> SUFFICES ASSUME Init PROVE IInv
  OBVIOUS
<1>1. TypeOK
  BY InitTypeOK
<1>2. \A t \in Threads : pc[t] = "idle"
  BY DEF Init
<1>3. caKey = Missing /\ \A h \in Hosts : crt[h].pair = Missing /\ key[h] = Missing
  BY DEF Init, NoCertificate
<1>4. CaMadeOnce
  BY <1>2, <1>3 DEF CaMadeOnce, MakingCa
<1>5. CaShared
  BY <1>2, <1>3 DEF CaShared, Complete
<1>6. \A h \in Hosts : MadeOnce(h)
  BY <1>2, <1>3 DEF MadeOnce, MakingHost, Making, MakingCa
<1> QED
  BY <1>1, <1>2, <1>4, <1>5, <1>6 DEF IInv, Opened, FailsOnlyDisturbed

(* A disturbance is never forgotten. *)
LEMMA DisturbedStays ==
  ASSUME [Next]_vars
  PROVE  (~caDisturbed' => ~caDisturbed) /\ disturbed \subseteq disturbed'
<1>1. ASSUME NEW t \in Threads, NEW h \in Hosts, GetCertForHost(t, h)
      PROVE  caDisturbed' = caDisturbed /\ disturbed \subseteq disturbed'
  BY <1>1 DEF GetCertForHost
<1>2. ASSUME NEW t \in Threads, GetCa(t)
      PROVE  caDisturbed' = (caDisturbed \/ OthersMakingCa(t) # {}) /\ disturbed' = disturbed
  BY <1>2 DEF GetCa
<1>3. ASSUME NEW t \in Threads, ReadCaCert(t) \/ ReadCaKey(t) \/ OpenCaCert(t)
                \/ WriteCaCert(t) \/ OpenCaKey(t) \/ WriteCaKey(t)
      PROVE  caDisturbed' = caDisturbed /\ disturbed' = disturbed
  BY <1>3 DEF ReadCaCert, ReadCaKey, OpenCaCert, WriteCaCert, OpenCaKey, WriteCaKey
<1>4. ASSUME NEW t \in Threads, OpenCrt(t) \/ WriteCrt(t) \/ OpenKey(t) \/ WriteKey(t)
                \/ LoadCrt(t) \/ LoadKey(t)
      PROVE  caDisturbed' = caDisturbed /\ disturbed' = disturbed
  BY <1>4 DEF OpenCrt, WriteCrt, OpenKey, WriteKey, LoadCrt, LoadKey
<1>5. CASE Restart
  BY <1>5 DEF Restart
<1>6. CASE UNCHANGED vars
  BY <1>6 DEF vars
<1> QED
  BY <1>1, <1>2, <1>3, <1>4, <1>5, <1>6 DEF Next, Make

(* IInv is inductive. *)
LEMMA NextIInv ==
  ASSUME IInv, [Next]_vars
  PROVE  IInv'
<1>1. TypeOK'
  BY NextTypeOK DEF IInv
<1>2. Opened'
  BY OpenedStep DEF IInv
<1>3. ~caDisturbed' => CaMadeOnce' /\ CaShared'
  BY DisturbedStays, CaMadeStep, CaSharedStep DEF IInv
<1>4. ASSUME NEW h \in Hosts, h \notin disturbed'
      PROVE  MadeOnce(h)'
  <2>1. MadeOnce(h)
    BY <1>4, DisturbedStays DEF IInv
  <2> QED
    BY <1>4, <2>1, MadeOnceStep DEF IInv
<1>5. FailsOnlyDisturbed'
  BY FailsStep
<1> QED
  BY <1>1, <1>2, <1>3, <1>4, <1>5 DEF IInv

---------------------------------------------------------------------------
(* The theorems. *)

(* Every reachable state has the types of TypeOK and satisfies IInv. *)
THEOREM IInvAlways == Spec => []IInv
<1> QED
  BY InitIInv, NextIInv, PTL DEF Spec

(* Whatever connections, threads and restarts do, the files hold what one  *)
(* connection wrote, a truncated beginning of it, or nothing.              *)
THEOREM TypesCorrect == Spec => []TypeOK
<1>1. IInv => TypeOK
  BY DEF IInv
<1> QED
  BY <1>1, IInvAlways, PTL

(* A thread that serves a client shows a certificate signed by the CA in   *)
(* ca-cert.pem, unless two threads made the CA at once or the process was  *)
(* killed while its key was written.                                       *)
THEOREM SignedByTheCA == Spec => []SignedByCAIfCalm
<1>1. IInv => SignedByCAIfCalm
  BY DEF IInv, CaShared, CaDone, SignedByCAIfCalm
<1> QED
  BY <1>1, IInvAlways, PTL

(* load_cert_chain and get_ca raise only where the making of the CA or of  *)
(* the host's certificate was disturbed.                                   *)
THEOREM CalmNeverFails == Spec => []FailsOnlyDisturbed
<1>1. IInv => FailsOnlyDisturbed
  BY DEF IInv
<1> QED
  BY <1>1, IInvAlways, PTL

(* Two files of a host that nobody disturbed are never written again.      *)
THEOREM FinishedStays == Spec => FinishedIsKept
<1>1. ASSUME IInv, [Next]_vars, NEW h \in Hosts, HostExists(h), key[h] # Truncated,
             h \notin disturbed
      PROVE  crt'[h] = crt[h] /\ key'[h] = key[h]
  <2>1. MadeOnce(h) /\ TypeOK
    BY <1>1 DEF IInv
  <2>2. Finished(h)
    BY <1>1, <2>1 DEF HostExists, MadeOnce, MakingHost, Making
  <2> QED
    BY <1>1, <2>1, <2>2, HostIsKept
<1>2. IInv /\ [Next]_vars =>
        [\A h \in Hosts :
           HostExists(h) /\ key[h] # Truncated /\ h \notin disturbed
             => crt'[h] = crt[h] /\ key'[h] = key[h]]_vars
  BY <1>1
<1> QED
  BY <1>2, IInvAlways, PTL DEF Spec, FinishedIsKept
=============================================================================
