----------------------------- MODULE CausalJournal -----------------------------
(***************************************************************************)
(* What the durable core of a run promises, without clocks, ledgers or     *)
(* workers: a chain of committed cycles, and at most one open cycle whose  *)
(* cut is sealed once, attempted one attempt at a time, and either joins   *)
(* the chain or stays aborted until an operator authorises the next        *)
(* attempt of the very same cut.  (ADR 0008, sections 3.3 and 11.)         *)
(***************************************************************************)
EXTENDS CausalClock

CONSTANT None

VARIABLES
    chain,  \* the cuts of the committed cycles
    open    \* the open cycle: its cut, its attempt and its phase

Closed == [phase |-> "closed", cut |-> None, attempt |-> 0]

\* A cut extends the chain: it follows the last link, lies after every link
\* and settles nothing that a link settled.
Extends(c) ==
    /\ c.base = 0 \/ \E d \in chain : d.base = c.base - 1
    /\ \A d \in chain : /\ d.base < c.base
                        /\ Precedes(d.cycle, c.cycle)
                        /\ d.units \cap c.units = {}

Init == chain = {} /\ open = Closed

Seal ==
    /\ open = Closed
    /\ open' = [phase |-> "sealed", cut |-> open'.cut, attempt |-> 0]
    /\ Extends(open'.cut)
    /\ UNCHANGED chain

Commit ==
    /\ open.phase = "sealed"
    /\ chain' = chain \cup {open.cut}
    /\ open' = Closed

\* A CLOCK_ADVANCE is never aborted.
Abort ==
    /\ open.phase = "sealed" /\ open.cut.kind = "work"
    /\ open' = [open EXCEPT !.phase = "aborted"]
    /\ UNCHANGED chain

Authorize ==
    /\ open.phase = "aborted"
    /\ open' = [open EXCEPT !.phase = "authorized"]
    /\ UNCHANGED chain

Reseal ==
    /\ open.phase = "authorized"
    /\ open' = [phase |-> "sealed", cut |-> open.cut,
                attempt |-> open.attempt + 1]
    /\ UNCHANGED chain

Next == Seal \/ Commit \/ Abort \/ Authorize \/ Reseal

Spec == Init /\ [][Next]_<<chain, open>>

================================================================================
