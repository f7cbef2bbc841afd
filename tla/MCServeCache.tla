---------------------------- MODULE MCServeCache ----------------------------
(* Instances of ServeCache for TLC. *)
EXTENDS ServeCache

(* Between busts a host is asked for twice at once, or two hosts one after  *)
(* the other; version 2's is not asked for: version 1 may be made,          *)
(* published, succeeded and deleted.                                        *)
TwoAnswers ==
    /\ Cardinality({h \in Hosts : resolved[h] # None})
         + Cardinality({k \in Keys : missing[k] # None})
         + Cardinality({l \in Loads : fill[l] # None}) <= 2
    /\ \A l, m \in Loads :
          fill[l] # None /\ fill[m] # None => fill[l].host = fill[m].host
    /\ LET h == <<"version", 2>> IN
       /\ resolved[h] = None /\ missing[h] = None
       /\ \A l \in Loads : fill[l] # None => fill[l].host # h
=============================================================================
