------------------------------- MODULE Basics -------------------------------
(* What the modules about documents, settings and answers share. *)
EXTENDS Integers, Sequences, FiniteSets, SequencesExt

CONSTANTS NONE   \* None, or a key that is not there

\* The first that is not NONE, as Python's "or" has it.
Or(a, b) == IF a # NONE THEN a ELSE b

ValuesOf(f) == {f[x] : x \in DOMAIN f}

\* f updated with g, as dict.update does.
Updated(f, g) == [x \in DOMAIN f \cup DOMAIN g |-> IF x \in DOMAIN g THEN g[x] ELSE f[x]]

\* The entries of s at the positions D, in their order: a comprehension with a condition.
Selected(s, D) == FlattenSeq([i \in DOMAIN s |-> IF i \in D THEN <<s[i]>> ELSE <<>>])
-----------------------------------------------------------------------------
\* A schema with a type only (Specs has the meaning of the fields).
Plain(type) == [ref |-> NONE, type |-> type, props |-> <<>>, required |-> {}, subs |-> <<>>,
                all |-> <<>>, allFirst |-> FALSE]

\* JSON values as trees (ResponseShaping has the meaning of the fields).
Tree(kind, size, items) == [kind |-> kind, size |-> size, items |-> items, left |-> <<>>]
Leaf(size)   == Tree("leaf", size, <<>>)
Null         == Tree("null", 1, <<>>)
Stars        == Tree("***", 1, <<>>)
Obj(entries) == Tree("object", 0, entries)
Arr(items)   == Tree("array", 0, items)
Entry(k, v)  == [key |-> k, value |-> v]
Lower(key)   == [key EXCEPT !.caps = FALSE]
=============================================================================
