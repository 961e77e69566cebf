----------------------------- MODULE CertCache -----------------------------
(***************************************************************************)
(* certs.py as the threads of proxy.py use it: the root CA and one         *)
(* certificate per host are made on first use and kept in files, which any *)
(* number of threads check, write and read without a lock.                 *)
(*                                                                         *)
(* A file is missing, truncated (open(..., 'wb') has created it, close()   *)
(* has not yet written the buffer), or holds what one connection wrote,    *)
(* told by the number of that connection.                                  *)
(***************************************************************************)
EXTENDS Naturals

CONSTANTS
  Threads,     \* worker threads that run _run_mitm
  Hosts,       \* hosts that clients CONNECT to
  MaxConns     \* bound: connections in a behaviour

ASSUME BoundAssumption == MaxConns \in Nat

VARIABLES
  caCert, caKey,   \* ca-cert.pem, ca-key.pem
  crt, key,        \* certs/<host>.crt, certs/<host>.key
  started,         \* connections so far
  pc,              \* where each thread is
  host,            \* the host it serves
  self,            \* the number of its connection
  ca,              \* the CA it works with
  leaf,            \* the certificate it has loaded
  caDisturbed,     \* history: the making of the CA was disturbed
  disturbed        \* history: hosts whose making was disturbed

files == <<caCert, caKey, crt, key>>
vars == <<files, started, pc, host, self, ca, leaf, caDisturbed, disturbed>>

Missing == 0
Truncated == 1
Number(n) == n + 2      \* what connection n writes

Contents == 0 .. MaxConns + 2
Certificate == [pair : Contents, signer : Contents]

MakingCa == {"openCaCert", "writeCaCert", "openCaKey", "writeCaKey"}
Making == {"getCa", "readCaCert", "readCaKey", "openCrt", "writeCrt", "openKey",
           "writeKey"} \cup MakingCa

TypeOK ==
  /\ caCert \in Contents
  /\ caKey \in Contents
  /\ crt \in [Hosts -> Certificate]
  /\ key \in [Hosts -> Contents]
  /\ started \in 0 .. MaxConns
  /\ pc \in [Threads -> Making \cup {"idle", "loadCrt", "loadKey", "serving",
                                     "failed"}]
  /\ host \in [Threads -> Hosts]
  /\ self \in [Threads -> 0 .. MaxConns]
  /\ ca \in [Threads -> [cert : Contents, key : Contents]]
  /\ leaf \in [Threads -> Certificate]
  /\ caDisturbed \in BOOLEAN
  /\ disturbed \subseteq Hosts

NoCertificate == [pair |-> Missing, signer |-> Missing]

(* A fresh installation. *)
Init ==
  /\ caCert = Missing
  /\ caKey = Missing
  /\ crt = [h \in Hosts |-> NoCertificate]
  /\ key = [h \in Hosts |-> Missing]
  /\ started = 0
  /\ pc = [t \in Threads |-> "idle"]
  /\ host \in [Threads -> Hosts]
  /\ self = [t \in Threads |-> 0]
  /\ ca = [t \in Threads |-> [cert |-> Missing, key |-> Missing]]
  /\ leaf = [t \in Threads |-> NoCertificate]
  /\ caDisturbed = FALSE
  /\ disturbed = {}

Goes(t, from, to) ==
  /\ pc[t] = from
  /\ pc' = [pc EXCEPT ![t] = to]

(* Mutant of HostExists: the key is not looked for. *)
CrtExists(h) == crt[h].pair # Missing

HostExists(h) == crt[h].pair # Missing /\ key[h] # Missing
CaExists == caCert # Missing /\ caKey # Missing

(* Other threads that make a certificate for h, or the CA. *)
OthersMaking(t, h) == {u \in Threads \ {t} : host[u] = h /\ pc[u] \in Making}
OthersMakingCa(t) == {u \in Threads \ {t} : pc[u] \in MakingCa}

---------------------------------------------------------------------------
(* Mutant of GetCertForHost: the files are not looked for. *)
GetCertAlwaysMakes(t, h) ==
  /\ started < MaxConns
  /\ pc[t] \in {"idle", "serving", "failed"}
  /\ pc' = [pc EXCEPT ![t] = "getCa"]
  /\ host' = [host EXCEPT ![t] = h]
  /\ self' = [self EXCEPT ![t] = started]
  /\ started' = started + 1
  /\ UNCHANGED <<files, ca, leaf, caDisturbed, disturbed>>

(* get_cert_for_host is called for a new connection and finds both files,  *)
(* or goes on to make them.  A thread that is through with a connection is *)
(* free for another one.                                                   *)
GetCertForHost(t, h) ==
  /\ started < MaxConns
  /\ pc[t] \in {"idle", "serving", "failed"}
  /\ pc' = [pc EXCEPT ![t] = IF HostExists(h) THEN "loadCrt" ELSE "getCa"]
  /\ host' = [host EXCEPT ![t] = h]
  /\ self' = [self EXCEPT ![t] = started]
  /\ started' = started + 1
  /\ disturbed' = IF OthersMaking(t, h) # {} THEN disturbed \cup {h}
                  ELSE disturbed
  /\ UNCHANGED <<files, ca, leaf, caDisturbed>>

(* get_ca finds both files, or makes a new key pair in memory. *)
GetCa(t) ==
  /\ Goes(t, "getCa", IF CaExists THEN "readCaCert" ELSE "openCaCert")
  /\ ca' = IF CaExists THEN ca
           ELSE [ca EXCEPT ![t] = [cert |-> Number(self[t]),
                                   key |-> Number(self[t])]]
  /\ caDisturbed' = (caDisturbed \/ OthersMakingCa(t) # {})
  /\ UNCHANGED <<files, started, host, self, leaf, disturbed>>

(* Loading a truncated file raises. *)
ReadCaCert(t) ==
  /\ Goes(t, "readCaCert", IF caCert = Truncated THEN "failed" ELSE "readCaKey")
  /\ ca' = [ca EXCEPT ![t].cert = caCert]
  /\ UNCHANGED <<files, started, host, self, leaf, caDisturbed, disturbed>>

ReadCaKey(t) ==
  /\ Goes(t, "readCaKey", IF caKey = Truncated THEN "failed" ELSE "openCrt")
  /\ ca' = [ca EXCEPT ![t].key = caKey]
  /\ UNCHANGED <<files, started, host, self, leaf, caDisturbed, disturbed>>

OpenCaCert(t) ==
  /\ Goes(t, "openCaCert", "writeCaCert")
  /\ caCert' = Truncated
  /\ UNCHANGED <<caKey, crt, key, started, host, self, ca, leaf, caDisturbed,
                 disturbed>>

WriteCaCert(t) ==
  /\ Goes(t, "writeCaCert", "openCaKey")
  /\ caCert' = ca[t].cert
  /\ UNCHANGED <<caKey, crt, key, started, host, self, ca, leaf, caDisturbed,
                 disturbed>>

OpenCaKey(t) ==
  /\ Goes(t, "openCaKey", "writeCaKey")
  /\ caKey' = Truncated
  /\ UNCHANGED <<caCert, crt, key, started, host, self, ca, leaf, caDisturbed,
                 disturbed>>

WriteCaKey(t) ==
  /\ Goes(t, "writeCaKey", "openCrt")
  /\ caKey' = ca[t].key
  /\ UNCHANGED <<caCert, crt, key, started, host, self, ca, leaf, caDisturbed,
                 disturbed>>

(* The host's key pair is this connection's; the CA's key signs it. *)
OpenCrt(t) ==
  /\ Goes(t, "openCrt", "writeCrt")
  /\ crt' = [crt EXCEPT ![host[t]] = [pair |-> Truncated, signer |-> Missing]]
  /\ UNCHANGED <<caCert, caKey, key, started, host, self, ca, leaf, caDisturbed,
                 disturbed>>

(* Mutant of WriteCrt: the certificate is signed with its own key. *)
WriteCrtSelfSigned(t) ==
  /\ Goes(t, "writeCrt", "openKey")
  /\ crt' = [crt EXCEPT ![host[t]] = [pair |-> Number(self[t]),
                                      signer |-> Number(self[t])]]
  /\ UNCHANGED <<caCert, caKey, key, started, host, self, ca, leaf, caDisturbed,
                 disturbed>>

WriteCrt(t) ==
  /\ Goes(t, "writeCrt", "openKey")
  /\ crt' = [crt EXCEPT ![host[t]] = [pair |-> Number(self[t]),
                                      signer |-> ca[t].key]]
  /\ UNCHANGED <<caCert, caKey, key, started, host, self, ca, leaf, caDisturbed,
                 disturbed>>

OpenKey(t) ==
  /\ Goes(t, "openKey", "writeKey")
  /\ key' = [key EXCEPT ![host[t]] = Truncated]
  /\ UNCHANGED <<caCert, caKey, crt, started, host, self, ca, leaf, caDisturbed,
                 disturbed>>

WriteKey(t) ==
  /\ Goes(t, "writeKey", "loadCrt")
  /\ key' = [key EXCEPT ![host[t]] = Number(self[t])]
  /\ UNCHANGED <<caCert, caKey, crt, started, host, self, ca, leaf, caDisturbed,
                 disturbed>>

---------------------------------------------------------------------------
(* load_cert_chain in _run_mitm reads the certificate, then the key, and   *)
(* raises when one is truncated or they do not belong together.            *)
LoadCrt(t) ==
  /\ Goes(t, "loadCrt",
          IF crt[host[t]].pair = Truncated THEN "failed" ELSE "loadKey")
  /\ leaf' = [leaf EXCEPT ![t] = crt[host[t]]]
  /\ UNCHANGED <<files, started, host, self, ca, caDisturbed, disturbed>>

(* Mutant of LoadKey: a thread that is refused the pair is never free again. *)
LoadKeyHangs(t) ==
  /\ Goes(t, "loadKey", IF key[host[t]] = leaf[t].pair THEN "serving" ELSE "lost")
  /\ UNCHANGED <<files, started, host, self, ca, leaf, caDisturbed, disturbed>>

LoadKey(t) ==
  /\ Goes(t, "loadKey",
          IF key[host[t]] = leaf[t].pair THEN "serving" ELSE "failed")
  /\ UNCHANGED <<files, started, host, self, ca, leaf, caDisturbed, disturbed>>

(* The process is killed and started again: the files stay as they are.    *)
(* Only a truncated key file looks like the end of the making.             *)
Restart ==
  /\ \E t \in Threads : pc[t] \in Making
  /\ pc' = [t \in Threads |-> "idle"]
  /\ caDisturbed' = (caDisturbed \/ \E t \in Threads : pc[t] = "writeCaKey")
  /\ disturbed' = disturbed \cup {host[t] : t \in {u \in Threads :
                                                    pc[u] = "writeKey"}}
  /\ UNCHANGED <<files, started, host, self, ca, leaf>>

Make(t) ==
  \/ GetCa(t) \/ ReadCaCert(t) \/ ReadCaKey(t)
  \/ OpenCaCert(t) \/ WriteCaCert(t) \/ OpenCaKey(t) \/ WriteCaKey(t)
  \/ OpenCrt(t) \/ WriteCrt(t) \/ OpenKey(t) \/ WriteKey(t)

Next ==
  \/ \E t \in Threads :
       \/ \E h \in Hosts : GetCertForHost(t, h)
       \/ Make(t) \/ LoadCrt(t) \/ LoadKey(t)
  \/ Restart

Spec == Init /\ [][Next]_vars

---------------------------------------------------------------------------
(***************************************************************************)
(* A certificate that clients are shown is signed by the CA that they      *)
(* trust, the one in ca-cert.pem, as long as no two threads made the CA at *)
(* once and no process was killed while its key was written, whatever      *)
(* happens to the files of the hosts (certs.py:103).                       *)
(***************************************************************************)
SignedByCAIfCalm ==
  \A t \in Threads :
    pc[t] = "serving" /\ ~caDisturbed => leaf[t].signer = caCert /\ caCert = caKey

(***************************************************************************)
(* A client is refused only where the making of the CA or of its host's    *)
(* certificate was disturbed: a restart at any other point is repaired by  *)
(* the next connection.                                                    *)
(***************************************************************************)
FailsOnlyDisturbed ==
  \A t \in Threads :
    pc[t] = "failed" => caDisturbed \/ host[t] \in disturbed

(***************************************************************************)
(* A finished pair of files whose making nobody disturbed is never written *)
(* again, by any thread or after any restart: what one client has been     *)
(* shown, later ones are shown too (certs.py:118).                       *)
(***************************************************************************)
FinishedIsKept ==
  [][\A h \in Hosts :
       HostExists(h) /\ key[h] # Truncated /\ h \notin disturbed
         => crt'[h] = crt[h] /\ key'[h] = key[h]]_vars
=============================================================================
