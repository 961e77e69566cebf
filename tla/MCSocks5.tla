------------------------------- MODULE MCSocks5 -------------------------------
(***************************************************************************)
(* One opening of each kind.                                               *)
(***************************************************************************)
EXTENDS Socks5

Greets(rest) == <<"version", "methods">> \o rest

MCOpenings ==
  {Greets(<<"ipv4", "address", "port">>),
   <<"version_only", "name", "length", "domain", "port">>,
   Greets(<<"bind">>), Greets(<<"other_type">>), <<"wrong_version">>}
=============================================================================
