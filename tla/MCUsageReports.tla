---------------------------- MODULE MCUsageReports ----------------------------
(* UsageReports for TLC: three turns of up to two organisations.           *)
EXTENDS UsageReports

(* by_model splits a total without loss, whatever the records are. *)
ASSUME ModelsAddUp ==
  \A found \in SUBSET {Record(t, o, 0) : t \in Turns, o \in Billed} :
    LET by == ByModel(found) IN
    MapThenSumSet(LAMBDA m : by[m], DOMAIN by) = Total(found)
=============================================================================
