------------------------------ MODULE MCStore ------------------------------
(***************************************************************************)
(* Two processes that share a data directory: one with two threads (the    *)
(* IRC reader and a timer callback), one with a single thread.  Two legal  *)
(* keys, so that a lost update of the other key is visible, one illegal    *)
(* key, one oversized value and one that is not UTF-8, stored as vutf.     *)
(***************************************************************************)
EXTENDS Store, TLC

CONSTANTS t1, t2, t3, p1, p2, k1, k2, kbad, v1, vbig, vraw, vutf

MCThread    == {t1, t2, t3}
MCProcess   == {p1, p2}
MCProcessOf == (t1 :> p1) @@ (t2 :> p1) @@ (t3 :> p2)
MCKey       == {k1, k2, kbad}
MCLegalKey  == {k1, k2}
MCValue     == {v1, vbig, vraw, vutf}
MCSmallValue == {v1, vraw, vutf}
MCClean     == [v \in MCValue \cup {Missing} |-> IF v = vraw THEN vutf ELSE v]
Set(k, v)   == [kind |-> "set", key |-> k, val |-> v]
Delete(k)   == [kind |-> "delete", key |-> k, val |-> Missing]
Get(k)      == [kind |-> "get", key |-> k, val |-> Missing]

(* Each sets one key and deletes the other; calls that are rejected are    *)
(* tried by one thread each.                                               *)
MCRequest == (t1 :> {Set(k1, v1), Set(k2, vbig), Delete(k2), Get(k2)})
          @@ (t2 :> {Set(k2, vraw), Delete(k1), Get(k1), Get(kbad)})
          @@ (t3 :> {Set(k2, vraw), Delete(k1), Get(k2)})
=============================================================================
