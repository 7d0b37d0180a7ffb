----------------------------- MODULE MCSpyServer -----------------------------
(* Instances of SpyServer for TLC. *)
EXTENDS SpyServer

(* One command of each kind of handling. *)
EveryHandler == {"hello", "enable", "ping", "other", "oversized"}

(* Enough to block in a reply; the lock does not care which command it is. *)
Pings == {"ping"}
=============================================================================
