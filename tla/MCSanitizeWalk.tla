---------------------------- MODULE MCSanitizeWalk ----------------------------
EXTENDS SanitizeWalk, TLC
CONSTANTS n1, n2, text, payload, number, empty

MCLeafOf == (text :> [kind |-> "text", length |-> 2])
              @@ (payload :> [kind |-> "payload", length |-> 6])
              @@ (number :> [kind |-> "number", length |-> 1])
              @@ (empty :> [kind |-> "text", length |-> 0])

Entry(name, to) == [name |-> name, to |-> to]
ShapeOf(kind, entries, wire, base) ==
  [kind |-> kind, entries |-> entries, wire |-> wire, base |-> base]
MCNode == {n1, n2, text, payload}

(* All containers of up to two entries; only members have names.           *)
Lists == {<<>>} \cup {<<Entry("plain", a)>> : a \in MCNode}
           \cup {<<Entry("plain", a), Entry("plain", b)>> :
                   a \in MCNode, b \in MCNode}
Members == {<<Entry("plain", a), Entry(name, b)>> :
              a \in {n1, n2, payload, number}, b \in MCNode, name \in Name}
             \cup {<<Entry("binary", empty)>>}

Shapes ==
  {ShapeOf("pointer", <<Entry("plain", a)>>, w, NoNode) :
     a \in MCNode, w \in {NoNode, payload, n2}}
  \cup {ShapeOf("list", e, NoNode, b) : e \in Lists, b \in {NoNode, n1, n2}}
  \cup {ShapeOf("map", e, NoNode, NoNode) : e \in Members}
  \cup {ShapeOf("struct", e, NoNode, NoNode) : e \in Members}
  \cup {ShapeOf("keyed", <<Entry("plain", a)>>, NoNode, NoNode) :
           a \in MCNode}
  \cup {ShapeOf(k, <<Entry("plain", n2)>>, w, NoNode) :
           k \in {"list", "struct"}, w \in {payload, n2}}

(* What HeapAssumption says, and that what a JSON form decodes to refers   *)
(* to nothing else here.                                                   *)
Sound(h) ==
  \A n \in {n1, n2} :
    /\ h[n].wire \in {n1, n2} =>
         LET form == h[h[n].wire]
         IN  /\ h[n].wire # n /\ form.kind \in {"map", "list"}
             /\ \A i \in DOMAIN form.entries :
                  form.entries[i].to \notin {n1, n2}
    /\ h[n].base # NoNode =>
         LET base == h[h[n].base]
         IN  /\ h[n].base # n /\ base.kind = "list" /\ base.base = NoNode
             /\ IsPrefix(h[n].entries, base.entries)

(* A struct holds its members by value, so structs alone make no cycle.    *)
HoldsItself(h) ==
  \E a \in {n1, n2} :
    LET b == IF a = n1 THEN n2 ELSE n1
        holds(x, y) == h[x].kind = "struct"
                         /\ \E i \in DOMAIN h[x].entries :
                              h[x].entries[i].to = y
    IN  holds(a, a) \/ (holds(a, b) /\ holds(b, a))

MCHeaps == {h \in [{n1, n2} -> Shapes] :
              Sound(h) /\ ~HoldsItself(h)}
=============================================================================
