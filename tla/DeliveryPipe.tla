---------------------------- MODULE DeliveryPipe ----------------------------
(***************************************************************************)
(* What the privacy queue promises to the recorder above it, with no       *)
(* goroutine, mutex, signal or worker in sight: candidates are admitted in *)
(* some order, taken in hand a few at a time, shipped at most once each    *)
(* and in that order, and settled.  A shut pipe admits nothing more.       *)
(* PrivacyQueue implements this specification.                             *)
(***************************************************************************)
EXTENDS Integers, Sequences, FiniteSets, Functions

CONSTANTS
    Item,       \* candidates
    Capacity,   \* most candidates in line
    Handful,    \* most candidates in hand
    Lossless    \* TRUE: a full line holds admission; FALSE: it pushes out

VARIABLES
    line,       \* admitted candidates, oldest first
    hand,       \* candidates taken from the line and not settled
    shipped,    \* TRUE once the candidates in hand had their turn to ship
    wire,       \* everything shipped, in order
    settled,    \* candidates the pipe is through with
    lost,       \* candidates pushed out of a full line
    number,     \* place of each candidate in the order of admission, 0 if none
    open        \* admission is possible

pipeVars == <<line, hand, shipped, wire, settled, lost, number, open>>

Admitted == {i \in Item : number[i] > 0}

PipeInit ==
    /\ line = <<>>
    /\ hand = <<>>
    /\ shipped = TRUE
    /\ wire = <<>>
    /\ settled = {}
    /\ lost = {}
    /\ number = [i \in Item |-> 0]
    /\ open = TRUE

\* The admitted candidate gets the next number.
Enroll(i) ==
    /\ open
    /\ i \notin Admitted
    /\ number' = [number EXCEPT ![i] = Cardinality(Admitted) + 1]
    /\ UNCHANGED <<hand, shipped, wire, settled, open>>

Admit(i) ==
    /\ Enroll(i)
    /\ Len(line) < Capacity
    /\ line' = Append(line, i)
    /\ UNCHANGED lost

AdmitOverOldest(i) ==
    /\ ~Lossless
    /\ Enroll(i)
    /\ Len(line) = Capacity
    /\ line' = Append(Tail(line), i)
    /\ lost' = lost \cup {Head(line)}

TakeInHand(n) ==
    /\ hand = <<>>
    /\ shipped
    /\ n <= Len(line)
    /\ hand' = SubSeq(line, 1, n)
    /\ line' = SubSeq(line, n + 1, Len(line))
    /\ shipped' = FALSE
    /\ UNCHANGED <<wire, settled, lost, number, open>>

\* The ways to pick some of n places, in order.
Picks(n) ==
    {at \in UNION {[1..m -> 1..n] : m \in 0..n} :
        \A j, k \in DOMAIN at : j < k => at[j] < at[k]}

\* Some of the candidates in hand, in order, all, or none.
Ship ==
    /\ ~shipped
    /\ shipped' = TRUE
    /\ \E at \in Picks(Len(hand)) :
           wire' = wire \o [k \in DOMAIN at |-> hand[at[k]]]
    /\ UNCHANGED <<line, hand, settled, lost, number, open>>

Settle ==
    /\ shipped
    /\ hand # <<>>
    /\ settled' = settled \cup {Head(hand)}
    /\ hand' = Tail(hand)
    /\ UNCHANGED <<line, shipped, wire, lost, number, open>>

Shut ==
    /\ open' = FALSE
    /\ UNCHANGED <<line, hand, shipped, wire, settled, lost, number>>

PipeNext ==
    \/ \E i \in Item : Admit(i) \/ AdmitOverOldest(i)
    \/ \E n \in 1..Handful : TakeInHand(n)
    \/ Ship
    \/ Settle
    \/ Shut

PipeSpec == PipeInit /\ [][PipeNext]_pipeVars

=============================================================================
