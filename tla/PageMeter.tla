----------------------------- MODULE PageMeter ------------------------------
(***************************************************************************)
(* What the page meter of an organization promises: a paid OCR call is     *)
(* billed in one atomic step, and only if the estimate fitted the quota.   *)
(***************************************************************************)
EXTENDS Naturals

CONSTANTS
    Orgs,           \* organizations
    Quotas,         \* quotas an operator may set
    Estimates,      \* size-based page estimates
    MaxPages        \* most pages a document turns out to have

VARIABLES usage, quota

Init ==
    /\ usage = [o \in Orgs |-> 0]
    /\ quota \in [Orgs -> Quotas]

\* An estimate that fits is accepted; what is billed is the page count OCR
\* reports, or the estimate itself when OCR fails for good.
Bill(o) ==
    /\ \E e \in Estimates :
          /\ usage[o] + e <= quota[o]
          /\ \E p \in (0 .. MaxPages) \cup {e} :
                usage' = [usage EXCEPT ![o] = @ + p]
    /\ UNCHANGED quota

Reset(o) ==
    /\ usage' = [usage EXCEPT ![o] = 0]
    /\ UNCHANGED quota

SetQuota(o) ==
    /\ \E q \in Quotas : quota' = [quota EXCEPT ![o] = q]
    /\ UNCHANGED usage

Next == \E o \in Orgs : Bill(o) \/ Reset(o) \/ SetQuota(o)

Spec == Init /\ [][Next]_<<usage, quota>>
=============================================================================
