------------------------------- MODULE Specs -------------------------------
(***************************************************************************)
(* OpenAPI documents as the rest of the program sees them (spec.py): the   *)
(* operations, the $refs between the files of a document, and the $refs    *)
(* inside a schema.                                                        *)
(*                                                                         *)
(* A schema is a record: the component it refers to ("ref", or NONE), its  *)
(* type, its own properties, its required names, the schemas under items,  *)
(* anyOf and oneOf ("subs"), those of allOf ("all"), and whether the key   *)
(* allOf comes before the keys properties and required ("allFirst").  The  *)
(* parts of the document are found by name: components' schemas and        *)
(* parameters are functions from names.  Parsing is left out.              *)
(***************************************************************************)
EXTENDS Basics

CONSTANTS MaxDepth,   \* how deep resolve_schema goes, 20 in the code
          MaxHops     \* _MAX_REF_DEPTH, 10 in the code

HttpMethods == <<"get", "put", "post", "delete", "patch", "options", "head">>
-----------------------------------------------------------------------------
(* Resolving a schema. *)

\* What resolve_schema goes into: not the other keys, such as additionalProperties.
Parts(s) == ValuesOf(s.props) \cup ValuesOf(s.subs) \cup ValuesOf(s.all)

\* From a schema it goes on to the target of its $ref, or to its parts.
Onward(s, schemas) ==
  IF s.ref = NONE THEN Parts(s) ELSE {schemas[name] : name \in {s.ref} \cap DOMAIN schemas}

\* The schemas it is at, at each depth.
Levels(s, schemas) ==
  LET Level[d \in 0..(MaxDepth + 1)] ==
        IF d = 0 THEN {s} ELSE UNION {Onward(x, schemas) : x \in Level[d - 1]}
  IN Level

\* No SpecError: neither the nesting nor a chain of $refs, which count alike, goes deeper than
\* MaxDepth, and every $ref has a target.
Resolves(s, schemas) ==
  /\ Levels(s, schemas)[MaxDepth + 1] = {}
  /\ \A d \in 0..MaxDepth : \A x \in Levels(s, schemas)[d] : x.ref \in DOMAIN schemas \cup {NONE}

\* A bug: what a member of allOf brings replaces what the members before it brought.
MutantMerged(own, members, allFirst) ==
  IF members = <<>> \/ (allFirst /\ DOMAIN own # {}) THEN own ELSE Last(members)

\* The keys are taken in the document's order: what allOf has merged upward is updated by
\* each member, and replaced by the schema's own key when that one comes after it.
Merged(own, members, allFirst) ==
  LET With[n \in 0..Len(members)] == IF n = 0 THEN own ELSE Updated(With[n - 1], members[n])
  IN IF allFirst /\ DOMAIN own # {} THEN own ELSE With[Len(members)]

\* A schema whose parts are resolved: allOf is flattened into its parent.
Flattened(s, own, subs, members) ==
  [s EXCEPT !.props = Merged(own, [i \in DOMAIN members |-> members[i].props], s.allFirst),
            !.required = IF s.allFirst /\ s.required # {} THEN s.required
                         ELSE s.required \cup UNION {members[i].required : i \in DOMAIN members},
            !.subs = subs,
            !.all = <<>>]

\* The schemas that are left a number of levels, without their $refs.
Resolution(s, schemas) ==
  LET With[left \in 0..(MaxDepth + 1)] ==
        [x \in Levels(s, schemas)[MaxDepth + 1 - left] |->
           LET Each(parts) == [i \in DOMAIN parts |-> With[left - 1][parts[i]]]
           IN IF x.ref # NONE THEN With[left - 1][schemas[x.ref]]
              ELSE Flattened(x, Each(x.props), Each(x.subs), Each(x.all))]
  IN With

\* The schema without its $refs, if it resolves.
Resolved(s, schemas) == Resolution(s, schemas)[MaxDepth + 1][s]

\* Parameters and bodies that cannot be resolved become a plain one (tools.py 217-223 and
\* 283-286), instead of keeping the server from starting.
SafelyResolved(s, type, schemas) ==
  IF Resolves(s, schemas) THEN Resolved(s, schemas) ELSE Plain(type)
-----------------------------------------------------------------------------
(* Inlining the files a document refers to. *)

\* A file is the set of its external $refs: the text they are written with ("key"), which
\* depends on the directory, and the file they mean ("at").  What stays in a document that
\* is bundled: the $refs already on the chain, those too many hops away, and those whose
\* file cannot be read.  Each branch has a chain of its own.
LeftIn(files, at) ==
  LET texts == {r.key : r \in UNION ValuesOf(files)}
      Left[hops \in 0..MaxHops] ==     \* with so many hops to go
        [file \in DOMAIN files |-> [seen \in SUBSET texts |->
           UNION {IF r.key \in seen \/ hops = 0 \/ r.at \notin DOMAIN files THEN {r}
                  ELSE Left[hops - 1][r.at][seen \cup {r.key}] : r \in files[file]}]]
  IN Left[MaxHops][at][{}]
-----------------------------------------------------------------------------
(* Walking the operations. *)

\* iter_operations: the paths in the document's order, the methods of each in HttpMethods'.  A
\* path, as a key of the document, is known by its position.
Operations(spec) ==
  FlattenSeq([i \in DOMAIN spec.paths |->
    FlattenSeq([k \in DOMAIN HttpMethods |->
      LET item == spec.paths[i]
          m    == HttpMethods[k]
      IN IF m \in DOMAIN item.ops
         THEN <<[method |-> m, at |-> i, item |-> item, op |-> item.ops[m]]>> ELSE <<>>])])

\* The schemas that are resolved: of the operations' bodies and answers.
SchemasOf(spec) ==
  UNION {({o.op.body} \ {NONE}) \cup Range(o.op.responses) : o \in Range(Operations(spec))}

\* Schemas and documents as the loader gives them.
SchemaRead(s) ==
  DOMAIN s = DOMAIN Plain(NONE) /\ s.allFirst \in BOOLEAN /\ s.all \in Seq(ValuesOf(s.all))
DocumentRead(spec) ==
  /\ spec.paths \in Seq(ValuesOf(spec.paths)) /\ IsFiniteSet(DOMAIN spec.files)
  /\ \A item \in ValuesOf(spec.paths) :
       item.path \in Seq(STRING) /\ \A op \in ValuesOf(item.ops) : op.id \in Seq(STRING)
  /\ \A s \in SchemasOf(spec) : SchemaRead(s)
-----------------------------------------------------------------------------
(* What resolving is for, in terms of what a document mentions rather than of the code's    *)
(* recursion.                                                                               *)

\* The components a schema mentions in the parts that are resolved (down to MaxDepth), and
\* the whole of what they lead to.
Mentions(s) == {x.ref : x \in UNION {Levels(s, <<>>)[d] : d \in 0..MaxDepth}} \ {NONE}

Reaches(names, schemas) ==
  LET all    == names \cup UNION {Mentions(x) : x \in ValuesOf(schemas)}
      closed == {C \in SUBSET all :
                   names \subseteq C /\ \A n \in C \cap DOMAIN schemas : Mentions(schemas[n]) \subseteq C}
  IN {n \in all : \A C \in closed : n \in C}

\* A schema that leads to a component which leads to itself, or to none, never resolves: the
\* depth limit catches every cycle, so the recursion ends.
CyclesAreCaught(s, schemas) ==
  (\E n \in Reaches(Mentions(s), schemas) :
     n \notin DOMAIN schemas \/ n \in Reaches(Mentions(schemas[n]), schemas))
  => ~Resolves(s, schemas)

\* What allOf's members declare is in the parent.
MembersMerged(s, schemas) ==
  s.ref = NONE /\ Resolves(s, schemas) =>
    \A i \in DOMAIN s.all :
      LET member == Resolved(s.all[i], schemas) IN
      /\ DOMAIN member.props \subseteq DOMAIN Resolved(s, schemas).props
      /\ member.required \subseteq Resolved(s, schemas).required

\* It is if allOf follows the parent's own properties in the document (before them it is lost,
\* spec.py 210 and 234).
MembersSurvive(s, schemas) == ~s.allFirst => MembersMerged(s, schemas)

\* Files that refer to each other without a cycle, each by a text of its own, are all
\* inlined, however many of them refer to the same one.
Referred(files, at) == {r.at : r \in files[at]}
ChainOf(files, at) ==
  LET all    == UNION {Referred(files, a) : a \in DOMAIN files}
      closed == {C \in SUBSET all :
                   \A a \in {at} \cup (C \cap DOMAIN files) : Referred(files, a) \subseteq C}
  IN {a \in all : \A C \in closed : a \in C}
AllInlined(files, at) ==
  LET all == {at} \cup ChainOf(files, at)
      refs == UNION {files[a] : a \in all \cap DOMAIN files}
  IN /\ all \subseteq DOMAIN files /\ Cardinality(all) <= MaxHops
     /\ \A a \in all : a \notin ChainOf(files, a)
     /\ \A r, q \in refs : r.key = q.key => r.at = q.at
     => LeftIn(files, at) = {}
=============================================================================
