------------------------------- MODULE Terms -------------------------------
(***************************************************************************)
(* What the frames may rely on of the side-effect lease, without the table *)
(* of frames, the clock and the surfaces of service/core/lease.ts: a lease *)
(* is a sequence of terms, each has one holder, and the answer to a poll   *)
(* names the term and says whether the caller holds it.  Lease implements  *)
(* this specification; Toasts uses it as the lease of its frames.          *)
(***************************************************************************)
EXTENDS Naturals

CONSTANTS
    Frame,      \* the frame ids
    None,       \* no frame
    MaxTerm     \* bound: no answer is given once this many terms began

VARIABLES
    holder,     \* who holds the present term, or None
    term,       \* its number
    told        \* the last answer to each frame

termVars == <<holder, term, told>>

Answer(f) ==
    /\ term < MaxTerm
    /\ \E h \in Frame \cup {None} :
          /\ holder' = h
          /\ term' = IF h # None /\ h # holder THEN term + 1 ELSE term
          /\ told' = IF f = None THEN told
                     ELSE [told EXCEPT ![f] = [leader |-> f = h, term |-> term']]

TermsInit ==
    /\ holder = None
    /\ term = 0
    /\ told = [f \in Frame |-> [leader |-> FALSE, term |-> 0]]

TermsSpec == TermsInit /\ [][\E f \in Frame \cup {None} : Answer(f)]_termVars
============================================================================
