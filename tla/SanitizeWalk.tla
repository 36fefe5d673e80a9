----------------------------- MODULE SanitizeWalk -----------------------------
(***************************************************************************)
(* How the SDK copies what a customer's tool was given or has returned:    *)
(* the walk of SanitizeValue (sanitize.go), which removes binary payloads  *)
(* and copies no more than a budget, and the walk of RedactSecretsInValue  *)
(* (secrets.go), which has the same shape and no budget.                   *)
(*                                                                         *)
(* A value is a heap of nodes that refer to one another, with sharing and  *)
(* cycles.  The recursion of the code is the variable stack, one frame per *)
(* call that has not returned; each action is one visit, one entry of a    *)
(* container, or one return with its deferred delete.                      *)
(*                                                                         *)
(* Texts are known by their length and by whether the patterns take them   *)
(* for a base64 payload; that a payload may be a part of a text is left    *)
(* out.  What the copy keeps as it is, without a look at its content and   *)
(* at no charge, is a leaf (a number, a boolean) or a map whose keys are   *)
(* not strings, which may hold anything.                                   *)
(***************************************************************************)
EXTENDS Integers, Sequences, FiniteSets, SequencesExt

CONSTANTS Inner,       \* nodes that refer to others; Root is one of them
          Root,        \* the value the walk is called with
          Leaf,        \* the other nodes
          LeafOf,      \* LeafOf[l]: the kind and the length of a leaf
          Heaps,       \* the heaps of inner nodes the walk may meet
          NoNode,      \* no node
          Budget,      \* SanitizationBudget
          PayloadMin,  \* the least length of a base64 payload
          Placeholder  \* the length of a placeholder

Node == Inner \cup Leaf

(* How an entry is named: a binary field (blob, or the data of an image),  *)
(* a sensitive one (password, token, ...), the type, or otherwise.         *)
Name == {"plain", "binary", "sensitive", "type"}

(* A map is "keyed" if its keys are not strings.                           *)
InnerKind == {"pointer", "map", "keyed", "list", "struct"}

(* A number is a json.Number, which is a string to reflection.             *)
LeafKind == {"text", "payload", "number", "other"}

(* An inner node has its entries in the order they are visited, and, if    *)
(* it has a JSON form of its own, the node that form decodes to.  A slice  *)
(* may begin where another one begins and end before it: base is that one. *)
Shape == [kind: InnerKind, entries: Seq([name: Name, to: Node]),
          wire: Node \cup {NoNode}, base: Inner \cup {NoNode}]

ASSUME WalkAssumption ==
  /\ Root \in Inner /\ Inner \cap Leaf = {} /\ NoNode \notin Node
  /\ {Budget, PayloadMin, Placeholder} \subseteq Nat \ {0}
  /\ LeafOf \in [Leaf -> [kind: LeafKind, length: Nat]]
  /\ Heaps \subseteq [Inner -> Shape]

(* A pointer has one target; a JSON form is text, or decodes to new maps   *)
(* and lists; a shorter slice has the first elements of its base.          *)
ASSUME HeapAssumption ==
  \A h \in Heaps, n \in Inner :
    /\ h[n].kind = "pointer" => Len(h[n].entries) = 1
    /\ h[n].wire \in Inner => /\ h[h[n].wire].kind \in {"map", "list"}
                             /\ h[h[n].wire].wire = NoNode
    /\ h[n].base # NoNode => /\ h[n].kind = "list"
                             /\ h[h[n].base].kind = "list"
                             /\ IsPrefix(h[n].entries, h[h[n].base].entries)

Pass == {"sanitize", "secrets"}

VARIABLES
  heap,       \* the value
  pass,       \* which of the two walks this is
  focus,      \* the node about to be visited, NoNode if none is
  peek,       \* the node reflectedString has come to, NoNode if none
  stack,      \* the calls that have not returned, outermost first
  seen,       \* state.seen: what is being visited further out
  remaining,  \* state.remaining
  copied,     \* history: the bytes that were copied
  out         \* history: the nodes that were written and how

walkVars == <<heap, pass, focus, peek, stack, seen, remaining, copied, out>>

KindOf(n) == IF n \in Inner THEN heap[n].kind ELSE LeafOf[n].kind
Entries(n) == heap[n].entries
Top == Last(stack)
Current == Entries(Top.node)[Top.next]
Done == focus = NoNode /\ peek = NoNode /\ stack = <<>>

WalkInit ==
  /\ heap \in Heaps /\ pass \in Pass
  /\ focus = Root /\ peek = NoNode
  /\ stack = <<>> /\ seen = {}
  /\ remaining = Budget /\ copied = 0 /\ out = {}

-----------------------------------------------------------------------------
(* Slips: what these steps would do with a plausible mistake.              *)

PayloadsAreLonger(length) == length > PayloadMin
KeptWhole(length) == length
NeverForgotten == UNCHANGED seen
LooksAheadEverywhere(n, entry) ==
  pass = "sanitize" \/ entry.name = "sensitive"

-----------------------------------------------------------------------------
Smaller(a, b) == IF a < b THEN a ELSE b

(* The payload patterns ask for a minimal length.                          *)
LongEnough(length) == length >= PayloadMin

(* What is kept of a string that is due: what the budget has left.         *)
Kept(length) ==
  IF pass = "secrets" THEN length ELSE Smaller(length, remaining)

Write(n, how, length) ==
  /\ remaining' = IF pass = "secrets" THEN remaining
                  ELSE remaining - Kept(length)
  /\ copied' = copied + Kept(length)
  /\ out' = out \cup {[node |-> n, how |-> how, length |-> Kept(length)]}

(* Another slice, map or pointer to the same memory is the same value, a   *)
(* slice whatever its length; a struct or an array is a copy and cannot be *)
(* met again.                                                              *)
Start(n) == IF heap[n].base = NoNode THEN n ELSE heap[n].base
Identity(n) ==
  CASE heap[n].kind = "pointer" -> <<"pointer", Entries(n)[1].to>>
    [] heap[n].kind = "struct" -> NoNode
    [] OTHER -> <<heap[n].kind, Start(n)>>

(* sanitizeString: first cut to what the budget has left, and then, if     *)
(* what is left of it still looks like a payload, replaced.                *)
SanitizeString(n) ==
  LET cut == Smaller(LeafOf[n].length, remaining)
  IN  IF LeafOf[n].kind = "payload" /\ LongEnough(cut)
      THEN Write(n, "placeholder", Placeholder)
      ELSE Write(n, "text", cut)

(* Returned as they are: a boolean, a json.Number, and the map with other  *)
(* keys than strings, together with whatever is in it.                     *)
CopiedWhole == {"other", "number", "keyed"}

VisitOther ==
  /\ focus # NoNode /\ KindOf(focus) \in CopiedWhole
  /\ out' = out \cup {[node |-> focus, how |-> "whole", length |-> 0]}
  /\ focus' = NoNode
  /\ UNCHANGED <<heap, pass, peek, stack, seen, remaining, copied>>

VisitText ==
  /\ focus \in Leaf /\ KindOf(focus) \notin CopiedWhole
  /\ IF pass = "sanitize" THEN SanitizeString(focus)
     ELSE Write(focus, "text", LeafOf[focus].length)
  /\ focus' = NoNode
  /\ UNCHANGED <<heap, pass, peek, stack, seen>>

(* A value with a JSON form of its own is rendered through that form: a    *)
(* json.Marshaler that is not too large, or raw JSON, which is a slice.    *)
HasWireForm(n) == /\ pass = "sanitize" /\ heap[n].wire # NoNode
                  /\ heap[n].kind \in {"pointer", "list", "struct"}

VisitWire ==
  /\ focus \in Inner /\ HasWireForm(focus)
  /\ focus' = heap[focus].wire
  /\ UNCHANGED <<heap, pass, peek, stack, seen, remaining, copied, out>>

(* Whether the visit goes on to the entries.                               *)
Opens(n) == n \in Inner /\ KindOf(n) # "keyed" /\ ~HasWireForm(n)

(* What is being visited further out is reported, not followed.            *)
VisitAgain ==
  /\ Opens(focus)
  /\ Identity(focus) \in seen
  /\ Write(focus, "circular", Placeholder)
  /\ focus' = NoNode
  /\ UNCHANGED <<heap, pass, peek, stack, seen>>

(* Before its members are charged for, an object is asked for its type,    *)
(* which decides what counts as a binary field.                            *)
TypeMembers(n) ==
  IF pass = "sanitize" /\ heap[n].kind \in {"map", "struct"}
  THEN {Entries(n)[i].to :
          i \in {j \in DOMAIN Entries(n) : Entries(n)[j].name = "type"}}
  ELSE {}

Descend ==
  /\ Opens(focus)
  /\ Identity(focus) \notin seen
  /\ stack' = Append(stack, [node |-> focus, next |-> 1])
  /\ seen' = seen \cup ({Identity(focus)} \ {NoNode})
  /\ focus' = NoNode
  /\ IF TypeMembers(focus) = {} THEN UNCHANGED peek
     ELSE peek' \in TypeMembers(focus)
  /\ UNCHANGED <<heap, pass, remaining, copied, out>>

(* charge: two bytes for an element, the key as well for a member.         *)
Cost(n) ==
  CASE pass = "secrets" \/ heap[n].kind = "pointer" -> 0
    [] pass = "sanitize" /\ heap[n].kind = "list" -> 2
    [] OTHER -> 3

(* Whether the name may decide what becomes of the entry: its value is     *)
(* looked at through pointers then.  Sanitizing looks at every member.     *)
LooksAhead(n, entry) ==
  /\ heap[n].kind \in {"map", "struct"}
  /\ pass = "sanitize" \/ entry.name = "sensitive"

NextEntry ==
  /\ focus = NoNode /\ peek = NoNode /\ stack # <<>>
  /\ Top.next <= Len(Entries(Top.node))
  /\ Cost(Top.node) <= remaining
  /\ stack' = [stack EXCEPT ![Len(stack)].next = @ + 1]
  /\ remaining' = remaining - Cost(Top.node)
  /\ copied' = copied + Cost(Top.node)
  /\ IF LooksAhead(Top.node, Current)
     THEN peek' = Current.to /\ UNCHANGED focus
     ELSE focus' = Current.to /\ UNCHANGED peek
  /\ UNCHANGED <<heap, pass, seen, out>>

(* The budget does not cover the entry: the rest of the container is left  *)
(* out, and nothing more is charged further out either.                    *)
OutOfBudget ==
  /\ focus = NoNode /\ peek = NoNode /\ stack # <<>>
  /\ Top.next <= Len(Entries(Top.node))
  /\ Cost(Top.node) > remaining
  /\ stack' = [stack EXCEPT ![Len(stack)].next =
                  Len(Entries(Top.node)) + 1]
  /\ remaining' = 0
  /\ UNCHANGED <<heap, pass, focus, peek, seen, copied, out>>

(* reflectedString follows pointers, and keeps no record of them.          *)
LookThrough ==
  /\ peek \in Inner /\ KindOf(peek) = "pointer"
  /\ peek' = Entries(peek)[1].to
  /\ UNCHANGED <<heap, pass, focus, stack, seen, remaining, copied, out>>

(* The type is found, or is no string: on to the first entry.              *)
TypeFound ==
  /\ peek # NoNode /\ KindOf(peek) # "pointer" /\ Top.next = 1
  /\ peek' = NoNode
  /\ UNCHANGED <<heap, pass, focus, stack, seen, remaining, copied, out>>

(* The entry that NextEntry came to.                                       *)
Ahead == Entries(Top.node)[Top.next - 1]

(* A string is replaced for its name, a binary field only if it has bytes. *)
NamedAway(n, name) ==
  /\ KindOf(n) \in {"text", "payload", "number"}
  /\ IF pass = "sanitize" THEN name = "binary" /\ LeafOf[n].length > 0
     ELSE name = "sensitive"

LookedAhead ==
  /\ peek # NoNode /\ KindOf(peek) # "pointer" /\ Top.next > 1
  /\ peek' = NoNode
  /\ IF NamedAway(peek, Ahead.name)
     THEN /\ Write(peek, "placeholder", Placeholder)
          /\ UNCHANGED focus
     ELSE /\ focus' = Ahead.to
          /\ UNCHANGED <<remaining, copied, out>>
  /\ UNCHANGED <<heap, pass, stack, seen>>

(* The deferred delete of a call that returns.                             *)
Forget == seen' = seen \ {Identity(Top.node)}

Return ==
  /\ focus = NoNode /\ peek = NoNode /\ stack # <<>>
  /\ Top.next > Len(Entries(Top.node))
  /\ stack' = Front(stack)
  /\ Forget
  /\ UNCHANGED <<heap, pass, focus, peek, remaining, copied, out>>

Visit == VisitText \/ VisitOther \/ VisitWire \/ VisitAgain \/ Descend
WalkNext == Visit \/ NextEntry \/ OutOfBudget \/ LookThrough \/ TypeFound
          \/ LookedAhead \/ Return

WalkSpec == WalkInit /\ [][WalkNext]_walkVars

(* Once it is called the walk is a computation that nothing interrupts.    *)
FairWalkSpec == WalkSpec /\ WF_walkVars(WalkNext)

-----------------------------------------------------------------------------
(* What the walk goes on to from a node, and all that it may come to.      *)
References(n) == IF HasWireForm(n) THEN {heap[n].wire}
                 ELSE {Entries(n)[i].to : i \in DOMAIN Entries(n)}
Closed(S) == \A n \in S \cap Inner : References(n) \subseteq S
Within(n) ==   \* the least closed set that has what n refers to
  {m \in Node : \A S \in SUBSET Node :
                  Closed(S) /\ References(n) \subseteq S => m \in S}

(* Sanitizing never copies more than the budget, placeholders and the      *)
(* text "[circular]" included, whatever is shared, nested or cyclic        *)
(* (sanitize.go:48).  What is returned as it is, a json.Number or a map    *)
(* with other keys than strings, is not copied and not charged for, and    *)
(* does not count here.                                                    *)
BudgetHolds == pass = "sanitize" => copied <= Budget

(* No binary payload gets through sanitizing: one that is not replaced has *)
(* been cut by the budget until it is none (sanitize.go:47).  There is one *)
(* exception, which the code has: a map with other keys than strings is    *)
(* returned whole, with the payloads in it (sanitize.go:224).              *)
Payloads(S) ==
  {l \in S \cap Leaf : KindOf(l) = "payload" /\ LeafOf[l].length >= PayloadMin}
Carried(w) ==
  CASE w.how = "text" -> IF w.length >= PayloadMin THEN Payloads({w.node}) ELSE {}
    [] w.how = "whole" -> Payloads(IF w.node \in Inner THEN Within(w.node)
                                   ELSE {w.node})
    [] OTHER -> {}
NoPayloadSurvives ==
  pass = "sanitize" =>
    \A w \in out : Carried(w) # {} => KindOf(w.node) = "keyed"

(* What the walks call circular really contains itself; a value that is    *)
(* only shared is copied once for each place it is found in                *)
(* (sanitize.go:214).  The exception, which the code has: a slice inside   *)
(* another one that begins at the same element is taken for that one       *)
(* (sanitize.go:245).                                                      *)
BeginsOuter(n) ==
  \E m \in Inner \ {n} : /\ KindOf(m) = "list" /\ KindOf(n) = "list"
                         /\ Start(m) = Start(n) /\ n \in Within(m)
CircularMeansCyclic ==
  \A w \in out : w.how = "circular" =>
    w.node \in Within(w.node) \/ BeginsOuter(w.node)

(* The walk ends on every value, cyclic ones included, with one exception  *)
(* the code has: if a member leads, by pointers alone, into pointers that  *)
(* lead back to each other, reflectedString follows them for ever, when    *)
(* the type is asked for or the member is come to (sanitize.go:278, 385).  *)
PointerLoop(n) ==
  LET Trail[k \in 0 .. Cardinality(Inner)] ==
        IF k = 0 THEN n
        ELSE IF Trail[k - 1] \in Inner /\ KindOf(Trail[k - 1]) = "pointer"
             THEN Entries(Trail[k - 1])[1].to ELSE NoNode
  IN  n # NoNode /\ Trail[Cardinality(Inner)] \in Inner
        /\ KindOf(Trail[Cardinality(Inner)]) = "pointer"
LostInPointers ==
  PointerLoop(peek) /\ heap[Top.node].kind \in {"map", "struct"}
Finishes == <>(Done \/ LostInPointers)
=============================================================================
