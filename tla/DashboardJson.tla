--------------------------- MODULE DashboardJson ---------------------------
(***************************************************************************)
(* scripts/dashboards/internal/common/normalize/normalize.go: from the     *)
(* SDK's JSON to the canonical lines that are committed.                   *)
(*                                                                         *)
(* Go walks a map in an order of its own choosing, so an encoder is the    *)
(* set of the outputs it may give.  An output is a sequence of lines; a    *)
(* line is its key, its value and whether a comma follows.  Indentation    *)
(* and quoting are left out.                                               *)
(***************************************************************************)
EXTENDS Naturals, Sequences, SequencesExt

\* JSON values, as encoding/json decodes them.
Prim(x) == [kind |-> "prim", of |-> x]
Array(s) == [kind |-> "array", of |-> s]
Object(f) == [kind |-> "object", of |-> f]

\* The keys of a dashboard, in alphabetical order, and its tags.
Alphabet == <<"gnetId", "gridPos", "h", "id", "iteration", "panels", "tags",
              "version", "y">>
TagAlphabet == <<"chalupa", "schwab-feed", "trading">>

Before(alphabet, a, b) ==
    \E i, j \in DOMAIN alphabet :
        i < j /\ alphabet[i] = a /\ alphabet[j] = b

\* Every way to put the values of a finite function in a row.
Arrangements(f) ==
    LET D == DOMAIN f  n == Cardinality(D)
    IN {[i \in 1..n |-> f[q[i]]] : q \in Bijection(1..n, D)}

SortStrings(alphabet, strings) ==
    CHOOSE s \in Arrangements(strings) :
        \A i, j \in DOMAIN s : i < j => ~Before(alphabet, s[j], s[i])

-----------------------------------------------------------------------------
\* Every way to put together one output of each of a sequence of encoders.
Cat(outputs) ==
    LET one == {c \in [DOMAIN outputs -> UNION Range(outputs)] :
                  \A i \in DOMAIN outputs : c[i] \in outputs[i]}
    IN {FlattenSeq(c) : c \in one}

Line(key, value, comma) == <<<<key, value, comma>>>>

\* The keys of an object in the order they are written: collected in the order
\* of the map, then sorted.
Keys(object) ==
    {SortStrings(Alphabet, found) :
       found \in Arrangements([k \in DOMAIN object |-> k])}

\* What surrounds the parts of an array or an object, and stands for none.
Open == [array |-> "[", object |-> "{"]
Close == [array |-> "]", object |-> "}"]
Empty == [array |-> "[]", object |-> "{}"]

\* The parts of a value, and the orders they may be written in: the items of an
\* array have no key and keep their order.
Members(v) == IF v.kind = "prim" THEN {} ELSE DOMAIN v.of
Name(v, k) == IF v.kind = "array" THEN "" ELSE k
Orders(v) == IF v.kind = "array" THEN {[i \in DOMAIN v.of |-> i]} ELSE Keys(v.of)

\* The outputs of encode for the value v of a key, followed by a comma or not,
\* from those of its parts.
EncodeFrom(key, v, comma, parts) ==
    IF v.kind = "prim" THEN {Line(key, v.of, comma)}
    ELSE IF Members(v) = {} THEN {Line(key, Empty[v.kind], comma)}
    ELSE UNION {Cat(<<{Line(key, Open[v.kind], FALSE)}>>
                    \o [i \in DOMAIN order |-> parts[order[i]][i < Len(order)]]
                    \o <<{Line("", Close[v.kind], comma)}>>) : order \in Orders(v)}

Parts(v, Enc(_, _, _)) ==
    [k \in Members(v) |->
       [comma \in BOOLEAN |-> Enc(Name(v, k), v.of[k], comma)]]

\* encode calls itself for the parts: here, as deep as a dashboard goes, its
\* panels, a panel, a grid position and what is in it.
EncodeLeaf(key, v, comma) == EncodeFrom(key, v, comma, <<>>)
EncodeFlat(key, v, comma) == EncodeFrom(key, v, comma, Parts(v, EncodeLeaf))
EncodePanel(key, v, comma) == EncodeFrom(key, v, comma, Parts(v, EncodeFlat))
EncodePanels(key, v, comma) == EncodeFrom(key, v, comma, Parts(v, EncodePanel))
Encode(key, v, comma) == EncodeFrom(key, v, comma, Parts(v, EncodePanels))

-----------------------------------------------------------------------------
volatileRootKeys == {"version", "iteration", "id", "gnetId"}

\* Slip: the tags keep the order the source gives them.
TagsAsGiven(tags) == tags

\* Tags that are strings, sorted.
SortTags(tags) ==
    LET strs == {i \in DOMAIN tags.of : tags.of[i].of \in ToSet(TagAlphabet)}
        sorted == SortStrings(TagAlphabet, [i \in strs |-> tags.of[i].of])
    IN Array([i \in DOMAIN sorted |-> Prim(sorted[i])])

\* The canonical outputs for the SDK's JSON: volatile keys of the root
\* stripped, tags sorted, keys in alphabetical order.
Normalize(root) ==
    LET kept == [k \in DOMAIN root \ volatileRootKeys |->
                   IF k = "tags" THEN SortTags(root[k]) ELSE root[k]]
    IN Encode("", Object(kept), FALSE)
=============================================================================
