-------------------------- MODULE GeneratorProofs --------------------------
(***************************************************************************)
(* Proofs about Generator, for every set of files an author may begin with *)
(* and every way of editing them: what protoc accepts is well-formed, what *)
(* the plugin accepts of it passes its checks, and the rest follows from   *)
(* these.                                                                  *)
(***************************************************************************)
EXTENDS Generator, Induction

-----------------------------------------------------------------------------
(***************************************************************************)
(* Well-formed files.                                                      *)
(***************************************************************************)
LEMMA FiniteRange ==
  ASSUME NEW S, NEW s \in Seq(S)
  PROVE  Range(s) \subseteq S /\ IsFiniteSet(Range(s))
<1>1. s \in [1..Len(s) -> S] /\ Len(s) \in Nat /\ DOMAIN s = 1..Len(s)
  OBVIOUS
<1>2. Range(s) \subseteq S
  BY <1>1 DEF Range
<1>3. s \in Surjection(1..Len(s), Range(s))
  BY <1>1 DEF Surjection, Range
<1>4. IsFiniteSet(1..Len(s))
  BY <1>1, FS_Interval
<1>5. IsFiniteSet(Range(s))
  <2> HIDE DEF Range
  <2>. QED
    BY <1>3, <1>4, FS_Surjection
<1>. QED
  BY <1>2, <1>5

LEMMA LegalMessages ==
  ASSUME NEW f, Legal(f)
  PROVE  /\ f.messages \in Seq(Messages) /\ Range(f.messages) \subseteq Messages
         /\ \A x, y \in Range(f.messages) : x.name = y.name => x = y
<1>1. f.messages \in Seq(Messages)
  BY DEF Legal, ProtoFiles
<1>2. \A x, y \in Range(f.messages) : x.name = y.name => x = y
  BY DEF Legal, Range
<1>. QED
  BY <1>1, <1>2, FiniteRange

LEMMA LegalFields ==
  ASSUME NEW f, Legal(f), NEW m \in Range(f.messages)
  PROVE  /\ m \in Messages /\ m.fields \in Seq(Fields)
         /\ Range(m.fields) \subseteq Fields /\ IsFiniteSet(Range(m.fields))
         /\ \A g, h \in Range(m.fields) : g.name = h.name => g = h
<1>1. m \in Messages /\ m.fields \in Seq(Fields)
  BY LegalMessages DEF Messages
<1>2. \A g, h \in Range(m.fields) : g.name = h.name => g = h
  BY DEF Legal, Range
<1>3. Range(m.fields) \subseteq Fields /\ IsFiniteSet(Range(m.fields))
  BY <1>1, FiniteRange
<1>. QED
  BY <1>1, <1>2, <1>3

LEMMA AggregateIsFirst ==
  ASSUME NEW f, Legal(f), f.messages # <<>>, f.messages[1].role = "aggregate"
  PROVE  /\ aggregateForFile(f) = f.messages[1]
         /\ aggregateForFile(f) \in Range(f.messages)
         /\ aggregateForFile(f).role = "aggregate"
<1> DEFINE P == {k \in DOMAIN f.messages : f.messages[k].role = "aggregate"}
<1>1. DOMAIN f.messages = 1..Len(f.messages) /\ Len(f.messages) \in Nat \ {0}
  BY LegalMessages
<1>2. 1 \in P /\ P \subseteq Nat /\ \A k \in P : 1 <= k
  BY <1>1
<1>3. Min(P) = 1
  <2> HIDE DEF P
  <2>1. PICK x \in P : x = Min(P) /\ \A k \in P : x <= k
    BY <1>2 DEF Min
  <2>2. x \in Nat /\ x <= 1 /\ 1 <= x
    BY <1>2, <2>1
  <2>. QED
    BY <2>1, <2>2
<1>4. aggregateForFile(f) = f.messages[1]
  BY <1>3 DEF aggregateForFile
<1>. QED
  BY <1>1, <1>4 DEF Range

-----------------------------------------------------------------------------
(***************************************************************************)
(* Events.  No field of an event that is an embed, or a string other than  *)
(* id and actor, is one that every event has.                              *)
(***************************************************************************)
LEMMA HeadersAreScalars ==
  ASSUME NEW f, Legal(f), NEW e \in Events(f), validateFields(e, eventFields),
         NEW g \in Range(e.fields), g.name \in {"id", "version", "at", "actor"}
  PROVE  /\ ProtoType(g) \in Scalars
         /\ ProtoType(g) = "string" => g.name \in {"id", "actor"}
<1>1. e \in Range(f.messages)
  BY DEF Events, OfRole
<1>2. PICK r \in eventFields : r.name = g.name
  BY DEF eventFields, Required
<1>3. PICK h \in Lookup(e, r.name) : ProtoType(h) = r.type
  BY <1>2 DEF validateFields
<1>4. h = g
  BY <1>1, <1>2, <1>3, LegalFields DEF Lookup
<1>5. /\ r.type \in {"string", "int64"}
      /\ r.type = "string" => r.name \in {"id", "actor"}
  BY DEF eventFields, Required
<1>. QED
  BY <1>2, <1>3, <1>4, <1>5 DEF Scalars

LEMMA EmbedIsDomainField ==
  ASSUME NEW f, Legal(f), NEW e \in Events(f), validateFields(e, eventFields),
         NEW g \in Range(e.fields), IsEmbed(g)
  PROVE  g \in domainFields(e)
<1>1. ProtoType(g) = "message"
  BY DEF IsEmbed, ProtoType
<1>2. ProtoType(g) \notin Scalars
  BY <1>1 DEF Scalars
<1>. QED
  BY <1>2, HeadersAreScalars DEF domainFields

(* The only domain field is what Lookup finds under its name.              *)
LEMMA OneDomainField ==
  ASSUME NEW f, Legal(f), NEW e \in Events(f), Cardinality(domainFields(e)) = 1,
         NEW g \in domainFields(e)
  PROVE  domainFields(e) = Lookup(e, g.name)
<1>1. e \in Range(f.messages) /\ g \in Range(e.fields)
  BY DEF Events, OfRole, domainFields
<1>2. Lookup(e, g.name) = {g}
  BY <1>1, LegalFields DEF Lookup
<1>3. IsFiniteSet(domainFields(e))
  BY <1>1, LegalFields, FS_Subset DEF domainFields
<1>4. PICK x : domainFields(e) = {x}
  <2> HIDE DEF domainFields
  <2>. QED
    BY <1>3, FS_Singleton
<1>. QED
  BY <1>2, <1>4

(* The code of an event is found under the name of the event.              *)
LEMMA OnIsCase ==
  ASSUME NEW f, Legal(f), NEW e \in Events(f)
  PROVE  Generated(f).on[e.name] = OnCase(e, f)
<1>1. \A m \in Events(f) : m.name = e.name => m = e
  BY LegalMessages DEF Events, OfRole
<1>2. (CHOOSE m \in Events(f) : m.name = e.name) = e
  BY <1>1
<1>3. e.name \in {m.name : m \in Events(f)}
  OBVIOUS
<1>4. Generated(f).on = ByName(Events(f), LAMBDA x : OnCase(x, f))
  BY DEF Generated
<1>. QED
  BY <1>2, <1>3, <1>4 DEF ByName

-----------------------------------------------------------------------------
(***************************************************************************)
(* What follows from the checks of a file.                                 *)
(***************************************************************************)
Checked(f) == Legal(f) /\ f.messages # <<>> /\ Accepted(f)

LEMMA CheckedAggregate ==
  ASSUME NEW f, Checked(f)
  PROVE  /\ aggregateForFile(f) \in Range(f.messages)
         /\ aggregateForFile(f).role = "aggregate"
  BY AggregateIsFirst DEF Checked, Accepted, validateFileStructure

LEMMA CheckedCollections ==
  ASSUME NEW f, Checked(f)
  PROVE  CollectionsChange(Generated(f))
<1>1. Generated(f).of = f
  BY DEF Generated
<1> DEFINE Right(e, change) ==
             /\ change.action = e.collection.action /\ change.target = e.collection.target
             /\ IF KeyedByHeader(e) THEN domainFields(e) \cap Lookup(e, change.from) = {}
                ELSE domainFields(e) = Lookup(e, change.from)
<1>2. SUFFICES ASSUME NEW e \in Events(f), e.collection.action # "none"
               PROVE  \E change \in Generated(f).on[e.name].changes : Right(e, change)
  BY <1>1 DEF CollectionsChange
<1>3. Legal(f) /\ validateFields(e, eventFields) /\ validateCollectionMapping(e, f)
  BY DEF Checked, Accepted
<1>4. e \in Range(f.messages) /\ e \in Messages
  BY <1>3, LegalFields DEF Events, OfRole
<1>5. Generated(f).on[e.name] = OnCase(e, f)
  BY <1>3, OnIsCase
<1> DEFINE cm == e.collection
           agg == aggregateForFile(f)
<1>6. cm.action \in {"ADD", "REMOVE"}
  <2>1. cm.action \in {"none", "UNSPECIFIED", "ADD", "REMOVE"}
    BY <1>4 DEF Messages
  <2>. QED
    BY <1>2, <1>3, <2>1 DEF validateCollectionMapping
<1>7. Cardinality(domainFields(e)) = 1
  BY <1>2, <1>3 DEF validateCollectionMapping
<1>8. CASE cm.action = "ADD"
  <2>1. PICK t \in Lookup(agg, cm.target) : Cardinality(Elements(e, t)) = 1
    BY <1>2, <1>3, <1>8 DEF validateCollectionMapping
  <2>2. PICK g \in Elements(e, t) : TRUE
    BY <2>1, FS_EmptySet
  <2>3. g \in domainFields(e)
    BY <1>3, <2>2, EmbedIsDomainField DEF Elements
  <2>4. domainFields(e) = Lookup(e, g.name)
    BY <1>3, <1>7, <2>3, OneDomainField
  <2>5. [action |-> cm.action, target |-> cm.target, from |-> g.name, key |-> cm.key]
          \in OnCase(e, f).changes
    BY <1>8, <2>1, <2>2 DEF OnCase
  <2>6. ~KeyedByHeader(e)
    BY <1>8 DEF KeyedByHeader
  <2>. QED
    BY <1>5, <2>4, <2>5, <2>6
<1>9. CASE cm.action = "REMOVE"
  <2>1. ~isCreationEvent(e.name, f)
    BY <1>2, <1>3, <1>9 DEF validateCollectionMapping
  <2>2. PICK g \in Lookup(e, cm.key) : g.shape = "one" /\ g.type = "string"
    BY <1>2, <1>3, <1>9 DEF validateCollectionMapping
  <2>3. g \in Range(e.fields) /\ g.name = cm.key /\ ProtoType(g) = "string"
    BY <2>2 DEF Lookup, ProtoType, ProtoKind, Scalars
  <2>4. [action |-> cm.action, target |-> cm.target, from |-> g.name, key |-> cm.key]
          \in OnCase(e, f).changes
    BY <1>9, <2>1, <2>2 DEF OnCase
  <2>5. CASE KeyedByHeader(e)
    <3>1. g.name \in {"id", "actor"}
      BY <2>3, <2>5 DEF KeyedByHeader
    <3>2. domainFields(e) \cap Lookup(e, g.name) = {}
      BY <3>1 DEF domainFields, Lookup
    <3>. QED
      BY <1>5, <2>4, <2>5, <3>2
  <2>6. CASE ~KeyedByHeader(e)
    <3>1. g.name \notin {"id", "actor"}
      BY <1>9, <2>3, <2>6 DEF KeyedByHeader
    <3>2. g \in domainFields(e)
      BY <1>3, <2>3, <3>1, HeadersAreScalars DEF domainFields
    <3>3. domainFields(e) = Lookup(e, g.name)
      BY <1>3, <1>7, <3>2, OneDomainField
    <3>. QED
      BY <1>5, <2>4, <2>6, <3>3
  <2>. QED
    BY <2>5, <2>6
<1>. QED
  BY <1>6, <1>8, <1>9

LEMMA CheckedEmbeds ==
  ASSUME NEW f, Checked(f)
  PROVE  EmbedsLand(Generated(f))
<1> DEFINE agg == aggregateForFile(f)
<1>1. Generated(f).of = f
  BY DEF Generated
<1>2. SUFFICES ASSUME NEW e \in Events(f), e.collection.action = "none",
                      NEW g \in Range(e.fields), IsEmbed(g),
                      NEW a \in Range(agg.fields), SameType(a, g)
               PROVE  g.name \in Generated(f).on[e.name].copies
  BY <1>1 DEF EmbedsLand
<1>3. Legal(f) /\ validateFields(e, eventFields) /\ validateSingularEmbed(e, f)
  BY DEF Checked, Accepted
<1>4. IsEmbed(a) /\ a.type = g.type
  BY <1>2 DEF SameType, IsEmbed
<1>5. PICK b \in Range(agg.fields) : b.name = g.name
  BY <1>2, <1>3, <1>4 DEF validateSingularEmbed
<1>6. g \in domainFields(e)
  BY <1>2, <1>3, EmbedIsDomainField
<1>7. g.name \in FieldNames(e) /\ g.name \in FieldNames(agg)
  BY <1>5 DEF FieldNames, Range
<1>8. g.name \in OnCase(e, f).copies
  BY <1>2, <1>6, <1>7 DEF OnCase, domainFields
<1>. QED
  BY <1>3, <1>8, OnIsCase

LEMMA CheckedCreation ==
  ASSUME NEW f, Checked(f)
  PROVE  CreatedOnce(Generated(f))
<1> DEFINE G == Generated(f)
<1>1. SUFFICES ASSUME NEW name \in DOMAIN G.commands,
                      NEW k \in DOMAIN G.commands[name].emits,
                      G.on[G.commands[name].emits[k]].created
               PROVE  k = 1 /\ G.commands[name].versions = {"new"}
  BY DEF CreatedOnce
<1>2. G.commands = ByName(Commands(f), LAMBDA c : CommandCode(c, f))
  BY DEF Generated
<1>3. PICK c \in Commands(f) : G.commands[name] = CommandCode(c, f)
  BY <1>2 DEF ByName
<1>4. Legal(f) /\ validateProducesEvents(c, f) /\ validateFileStructure(f)
  BY DEF Checked, Accepted
<1>5. c \in Range(f.messages) /\ c.produces \in Seq(STRING)
  BY <1>4, LegalFields DEF Commands, OfRole, Messages
<1>6. G.commands[name].emits = c.produces
  BY <1>3 DEF CommandCode
<1>7. k \in 1..Len(c.produces) /\ c.produces[k] \in Range(c.produces)
  BY <1>1, <1>5, <1>6 DEF Range
<1>8. PICK e \in Events(f) : e.name = c.produces[k]
  BY <1>4, <1>7 DEF validateProducesEvents
<1>9. isCreationEvent(e.name, f)
  <2>1. G.on[e.name] = OnCase(e, f)
    BY <1>4, OnIsCase
  <2>. QED
    BY <1>1, <1>6, <1>8, <2>1 DEF OnCase
<1>10. \A d \in Commands(f) : e.name \in Range(d.produces) => d.lifecycle = "CREATION"
  BY <1>9 DEF isCreationEvent
<1>11. c.lifecycle = "CREATION"
  BY <1>7, <1>8, <1>10
<1>12. G.commands[name].versions = {"new"}
  BY <1>3, <1>11 DEF CommandCode
<1>13. k = 1
  <2>1. SUFFICES ASSUME k \in 2..Len(c.produces) PROVE FALSE
    BY <1>7
  <2>2. PICK d \in Commands(f) : d.lifecycle # "CREATION" /\ c.produces[k] \in Range(d.produces)
    BY <1>4, <1>11, <2>1 DEF validateFileStructure
  <2>. QED
    BY <1>8, <1>10, <2>2
<1>. QED
  BY <1>12, <1>13

-----------------------------------------------------------------------------
(***************************************************************************)
(* Keys.  The annotations with a slot can be sorted, so that opaqueKey-    *)
(* Mappings lists each of them once, in order.                             *)
(***************************************************************************)
LEMMA AnnotationIs ==
  ASSUME NEW m \in Messages, NEW slot, NEW a \in Annotations(m, slot)
  PROVE  \E k \in DOMAIN m.fields : \E j \in DOMAIN m.fields[k].slots :
           /\ m.fields[k].slots[j][1] = slot
           /\ a = [field |-> m.fields[k], order |-> m.fields[k].slots[j][2], nth |-> <<k, j>>]
  BY DEF Annotations

LEMMA AnnotationsFinite ==
  ASSUME NEW m \in Messages, NEW slot
  PROVE  IsFiniteSet(Annotations(m, slot))
<1> DEFINE n == Len(m.fields)
           Of(k) == {[field |-> m.fields[k], order |-> m.fields[k].slots[j][2],
                      nth |-> <<k, j>>] :
                        j \in {i \in DOMAIN m.fields[k].slots :
                                 m.fields[k].slots[i][1] = slot}}
<1>1. m.fields \in Seq(Fields) /\ n \in Nat /\ DOMAIN m.fields = 1..n
  BY DEF Messages
<1>2. ASSUME NEW k \in 1..n PROVE IsFiniteSet(Of(k))
  <2> DEFINE slots == m.fields[k].slots
             g == [a \in Of(k) |-> a.nth[2]]
  <2>1. slots \in Seq((0..42) \X Int)
    <3>1. m.fields[k] \in Fields
      BY <1>1
    <3>. QED
      BY <3>1 DEF Fields
  <2>2. Len(slots) \in Nat /\ DOMAIN slots = 1..Len(slots)
    BY <2>1
  <2>3. IsFiniteSet(1..Len(slots))
    <3>1. PICK l \in Nat : l = Len(slots)
      BY <2>2
    <3>2. IsFiniteSet(1..l)
      BY FS_Interval
    <3>. QED
      BY <3>1, <3>2
  <2>4. \A a \in Of(k) : \E j \in 1..Len(slots) :
          a = [field |-> m.fields[k], order |-> slots[j][2], nth |-> <<k, j>>]
    BY <2>2
  <2>5. g \in [Of(k) -> 1..Len(slots)]
    <3> HIDE DEF Of
    <3>1. \A a \in Of(k) : a.nth[2] \in 1..Len(slots)
      BY <2>4
    <3>. QED
      BY <3>1
  <2>6. \A a, b \in Of(k) : g[a] = g[b] => a = b
    <3> HIDE DEF Of
    <3>. QED
      BY <2>4
  <2>7. g \in Injection(Of(k), 1..Len(slots))
    <3> HIDE DEF Of, g
    <3>. QED
      BY <2>5, <2>6 DEF Injection, IsInjective
  <2>. QED
    <3> HIDE DEF Of, g
    <3>. QED
      BY <2>3, <2>7, FS_Injection
<1> HIDE DEF Of
<1> DEFINE All == {Of(k) : k \in 1..n}
           h == [k \in 1..n |-> Of(k)]
<1>3. h \in Surjection(1..n, All)
  BY DEF Surjection
<1>4. IsFiniteSet(All)
  <2> HIDE DEF All, h
  <2>. QED
    BY <1>1, <1>3, FS_Surjection, FS_Interval
<1>5. IsFiniteSet(UNION All)
  BY <1>2, <1>4, FS_UNION
<1>6. Annotations(m, slot) = UNION All
  BY <1>1 DEF Annotations, Of
<1>. QED
  BY <1>5, <1>6

LEMMA MappingIs ==
  ASSUME NEW m \in Messages, NEW slot
  PROVE  LET A == Annotations(m, slot)
             s == Mapping(m, slot)
         IN  /\ DOMAIN s = 1..Cardinality(A) /\ Cardinality(A) \in Nat
             /\ \A k \in DOMAIN s : s[k] \in A
             /\ \A a \in A : \E k \in DOMAIN s : s[k] = a
             /\ \A j, k \in DOMAIN s : j < k => s[j].order <= s[k].order
<1> DEFINE A == Annotations(m, slot)
           n == Cardinality(A)
           R == {p \in A \X A : p[1].order <= p[2].order}
<1>1. IsFiniteSet(A) /\ n \in Nat
  BY AnnotationsFinite, FS_CardinalityType
<1>2. \A a \in A : a.order \in Int
  <2>1. SUFFICES ASSUME NEW a \in A PROVE a.order \in Int
    OBVIOUS
  <2>2. PICK k \in DOMAIN m.fields : \E j \in DOMAIN m.fields[k].slots :
          a.order = m.fields[k].slots[j][2]
    BY <2>1, AnnotationIs
  <2>3. m.fields[k] \in Fields
    BY DEF Messages
  <2>4. m.fields[k].slots \in Seq((0..42) \X Int)
    BY <2>3 DEF Fields
  <2>. QED
    BY <2>2, <2>4
<1> HIDE DEF A
<1>3. Orders(R, A)
  BY <1>2 DEF Orders
<1>4. PICK s : Enumerates(s, A, n) /\ Sorts(s, R, n)
  <2> HIDE DEF R
  <2>. QED
    BY <1>1, <1>3, SortedExists
<1>5. s \in SetToSeqs(A) /\ \A j, k \in DOMAIN s : j < k => s[j].order <= s[k].order
  BY <1>4 DEF Enumerates, Sorts, SetToSeqs
<1>6. /\ Mapping(m, slot) \in SetToSeqs(A)
      /\ \A j, k \in DOMAIN Mapping(m, slot) :
           j < k => Mapping(m, slot)[j].order <= Mapping(m, slot)[k].order
  BY <1>5 DEF Mapping, A
<1>7. Enumerates(Mapping(m, slot), A, n)
  BY <1>6 DEF SetToSeqs, Enumerates
<1>8. \A a \in A : \E k \in 1..n : Mapping(m, slot)[k] = a
  BY <1>1, <1>7, EnumerationCovers
<1>. QED
  BY <1>1, <1>6, <1>7, <1>8 DEF Enumerates, A

(* Of a message that passes the check, no two annotations with a slot have *)
(* the same order: neighbours in the sorted list differ.                   *)
LEMMA OrdersDiffer ==
  ASSUME NEW m \in Messages, validateOpaqueAnnotations(m), NEW slot \in UsedSlots(m),
         NEW a \in Annotations(m, slot), NEW b \in Annotations(m, slot), a # b
  PROVE  a.order # b.order
<1> DEFINE s == Mapping(m, slot)
           n == Cardinality(Annotations(m, slot))
<1>1. /\ DOMAIN s = 1..n /\ n \in Nat
      /\ \A j, k \in 1..n : j < k => s[j].order <= s[k].order
  BY MappingIs
<1>2. \A k \in 1..n : s[k].order \in Int
  <2>1. SUFFICES ASSUME NEW k \in 1..n PROVE s[k].order \in Int
    OBVIOUS
  <2>2. s[k] \in Annotations(m, slot)
    BY <1>1, MappingIs
  <2>3. PICK i \in DOMAIN m.fields : \E j \in DOMAIN m.fields[i].slots :
          s[k].order = m.fields[i].slots[j][2]
    BY <2>2, AnnotationIs
  <2>4. m.fields[i] \in Fields
    BY DEF Messages
  <2>5. m.fields[i].slots \in Seq((0..42) \X Int)
    BY <2>4 DEF Fields
  <2>. QED
    BY <2>3, <2>5
<1>3. \A k \in 1..n : k > 1 => s[k - 1].order # s[k].order
  BY <1>1 DEF validateOpaqueAnnotations, opaqueKeyMappings
<1>4. PICK j \in 1..n, k \in 1..n : s[j] = a /\ s[k] = b
  BY <1>1, MappingIs
<1>5. ASSUME NEW x \in 1..n, NEW y \in 1..n, x < y PROVE s[x].order # s[y].order
  <2>1. x + 1 \in 1..n /\ s[x].order # s[x + 1].order
    <3>1. x + 1 \in 1..n /\ x + 1 > 1 /\ (x + 1) - 1 = x
      BY <1>1, <1>5
    <3>. QED
      BY <1>3, <3>1
  <2>2. s[x].order <= s[x + 1].order
    BY <1>1, <2>1
  <2>3. x + 1 = y \/ s[x + 1].order <= s[y].order
    BY <1>1, <1>5, <2>1
  <2>. QED
    BY <1>2, <2>1, <2>2, <2>3
<1>6. j # k
  BY <1>4
<1>7. j < k \/ k < j
  BY <1>6
<1>. QED
  BY <1>4, <1>5, <1>7

LEMMA KeysAre ==
  ASSUME NEW f, Legal(f), NEW m \in Range(f.messages), IsView(m)
  PROVE  Generated(f).keys[m.name] = ViewKeys(m, f)
<1> DEFINE V == {x \in Range(f.messages) : IsView(x)}
<1>1. \A x \in V : x.name = m.name => x = m
  BY LegalMessages
<1>2. (CHOOSE x \in V : x.name = m.name) = m
  BY <1>1
<1>3. m.name \in {x.name : x \in V}
  OBVIOUS
<1>4. Generated(f).keys = ByName(V, LAMBDA x : ViewKeys(x, f))
  BY DEF Generated
<1>. QED
  BY <1>2, <1>3, <1>4 DEF ByName

LEMMA CheckedAnnotations ==
  ASSUME NEW f, Checked(f)
  PROVE  AnnotationsCount(Generated(f))
<1>1. Generated(f).of = f
  BY DEF Generated
<1>2. SUFFICES ASSUME NEW m \in Range(f.messages), IsView(m)
               PROVE
    /\ \A g \in Range(m.fields) : \A s \in Range(g.slots) : s[1] # 0 =>
         /\ s[1] \in DOMAIN Generated(f).keys[m.name].gsi
         /\ g.name \in Range(Generated(f).keys[m.name].gsi[s[1]])
         /\ \E n \in DOMAIN opaqueUsedGSIs(m) : s[1] \in {IndexPK(n), IndexSK(n)}
    /\ \A g, h \in Range(m.fields) : \A s \in Range(g.slots), t \in Range(h.slots) :
         g # h /\ s[1] = t[1] /\ s[1] # 0 => s[2] # t[2]
  BY <1>1 DEF AnnotationsCount
<1>3. m \in Messages /\ validateOpaqueAnnotations(m)
  BY <1>2, LegalFields DEF Checked, Accepted, hasOpaqueAnnotations
<1>4. Generated(f).keys[m.name].gsi
        = [slot \in UsedSlots(m) \ {1, 2} |-> NamesOf(Keyed(m, slot))]
  <2>1. Generated(f).keys[m.name] = ViewKeys(m, f)
    BY <1>2, KeysAre DEF Checked
  <2>. QED
    BY <2>1 DEF ViewKeys
<1>5. {1, 2} \cap UsedSlots(m) = {}
  BY <1>2, <1>3 DEF validateOpaqueAnnotations
(* An annotation of a field is among those with its slot. *)
<1>6. ASSUME NEW g \in Range(m.fields), NEW s \in Range(g.slots), s[1] # 0
      PROVE  /\ s[1] \in UsedSlots(m) /\ s[1] \in 3..42
             /\ \E a \in Annotations(m, s[1]) : a.field = g /\ a.order = s[2]
  <2>1. PICK k \in DOMAIN m.fields : m.fields[k] = g
    BY DEF Range
  <2>2. PICK j \in DOMAIN g.slots : g.slots[j] = s
    BY DEF Range
  <2>3. g \in Fields
    BY <1>3, <2>1 DEF Messages
  <2>4. s[1] \in 0..42
    BY <2>2, <2>3 DEF Fields
  <2>5. s[1] \in UsedSlots(m)
    BY <1>6, <2>1, <2>4 DEF UsedSlots, AllSlots
  <2>6. [field |-> g, order |-> s[2], nth |-> <<k, j>>] \in Annotations(m, s[1])
    BY <2>1, <2>2 DEF Annotations
  <2>. QED
    BY <1>5, <1>6, <2>4, <2>5, <2>6
<1>7. ASSUME NEW g \in Range(m.fields), NEW s \in Range(g.slots), s[1] # 0
      PROVE  /\ s[1] \in DOMAIN Generated(f).keys[m.name].gsi
             /\ g.name \in Range(Generated(f).keys[m.name].gsi[s[1]])
             /\ \E n \in DOMAIN opaqueUsedGSIs(m) : s[1] \in {IndexPK(n), IndexSK(n)}
  <2> DEFINE slot == s[1]
             map == Mapping(m, slot)
  <2>1. slot \in UsedSlots(m) /\ slot \in 3..42
    BY <1>6, <1>7
  <2>2. PICK a \in Annotations(m, slot) : a.field = g
    BY <1>6, <1>7
  <2>3. PICK k \in DOMAIN map : map[k] = a
    BY <1>3, <2>2, MappingIs
  <2>4. Keyed(m, slot) = KeyFields(map)
    BY <2>1 DEF Keyed, opaqueKeyMappings
  <2>5. k \in DOMAIN NamesOf(Keyed(m, slot)) /\ NamesOf(Keyed(m, slot))[k] = g.name
    BY <2>2, <2>3, <2>4 DEF KeyFields, NamesOf
  <2>6. slot \in DOMAIN Generated(f).keys[m.name].gsi
    BY <1>4, <2>1
  <2>7. Generated(f).keys[m.name].gsi[slot] = NamesOf(Keyed(m, slot))
    BY <1>4, <2>6
  <2>8. PICK n \in 1..20 : slot \in {IndexPK(n), IndexSK(n)}
    <3>1. PICK q \in 1..20 : slot = 2 * q + 1 \/ slot = 2 * q + 2
      BY <2>1
    <3>. QED
      BY <3>1 DEF IndexPK, IndexSK
  <2>9. IndexPK(n) \in UsedSlots(m)
    BY <1>3, <2>1, <2>8 DEF validateOpaqueAnnotations
  <2>10. n \in DOMAIN opaqueUsedGSIs(m)
    BY <2>9 DEF opaqueUsedGSIs
  <2>. QED
    BY <2>5, <2>6, <2>7, <2>8, <2>10 DEF Range
<1>8. ASSUME NEW g \in Range(m.fields), NEW h \in Range(m.fields),
             NEW s \in Range(g.slots), NEW t \in Range(h.slots),
             g # h, s[1] = t[1], s[1] # 0
      PROVE  s[2] # t[2]
  <2>1. PICK a \in Annotations(m, s[1]) : a.field = g /\ a.order = s[2]
    BY <1>6, <1>8
  <2>2. PICK b \in Annotations(m, s[1]) : b.field = h /\ b.order = t[2]
    BY <1>6, <1>8
  <2>3. s[1] \in UsedSlots(m)
    BY <1>6, <1>8
  <2>. QED
    BY <1>3, <1>8, <2>1, <2>2, <2>3, OrdersDiffer
<1>. QED
  BY <1>7, <1>8

LEMMA CheckedViews ==
  ASSUME NEW f, Checked(f)
  PROVE  ViewsComplete(Generated(f))
<1> DEFINE G == Generated(f)
           agg == aggregateForFile(f)
<1>1. G.of = f
  BY DEF Generated
<1>2. Legal(f) /\ validateFileStructure(f)
  BY DEF Checked, Accepted
<1>3. ASSUME NEW p \in OfRole(f, "projection")
      PROVE  G.projects[p.name] = FieldNames(p)
  <2>1. p \in Range(f.messages)
    BY DEF OfRole
  <2>2. \A q \in projectionsForFile(f) : q.name = p.name => q = p
    BY <1>2, <2>1, LegalMessages DEF projectionsForFile, OfRole
  <2>3. (CHOOSE q \in projectionsForFile(f) : q.name = p.name) = p
    BY <2>2 DEF projectionsForFile
  <2>4. G.projects = ByName(projectionsForFile(f), LAMBDA q : projectionMatchingFields(q, f))
    BY DEF Generated
  <2>5. p.name \in {q.name : q \in projectionsForFile(f)}
    BY DEF projectionsForFile
  <2>6. G.projects[p.name] = FieldNames(p) \cap FieldNames(agg)
    BY <2>3, <2>4, <2>5 DEF ByName, projectionMatchingFields
  <2>7. validateProjectionFields(p, f)
    BY DEF Checked, Accepted
  <2>8. FieldNames(p) \subseteq FieldNames(agg)
    BY <2>7 DEF validateProjectionFields, Lookup, FieldNames, Range
  <2>. QED
    BY <2>6, <2>8
<1>4. ASSUME NEW x \in DOMAIN G.keys, NEW y \in DOMAIN G.keys, x # y
      PROVE  G.keys[x].sk # G.keys[y].sk
  <2> DEFINE V == {m \in Range(f.messages) : IsView(m)}
  <2>1. DOMAIN G.keys = {m.name : m \in V}
    BY DEF Generated, ByName
  <2>2. PICK m \in V : m.name = x
    BY <2>1
  <2>3. PICK n \in V : n.name = y
    BY <2>1
  <2>4. G.keys[x] = ViewKeys(m, f) /\ G.keys[y] = ViewKeys(n, f)
    BY <1>2, <2>2, <2>3, KeysAre
  <2>5. \A p, q \in OfRole(f, "aggregate") : p = q
    <3>1. IsFiniteSet(OfRole(f, "aggregate"))
      BY <1>2, LegalMessages, FiniteRange, FS_Subset DEF OfRole
    <3>2. PICK p : OfRole(f, "aggregate") = {p}
      BY <1>2, <3>1, FS_Singleton DEF validateFileStructure
    <3>. QED
      BY <3>2
  <2>6. ~(m.role = "aggregate" /\ n.role = "aggregate")
    BY <1>4, <2>2, <2>3, <2>5 DEF OfRole
  <2>7. <<"AGG">> # <<"PROJ#", x>> /\ <<"AGG">> # <<"PROJ#", y>> /\ <<"PROJ#", x>> # <<"PROJ#", y>>
    BY <1>4
  <2>. QED
    BY <2>2, <2>3, <2>4, <2>6, <2>7 DEF ViewKeys
<1>. QED
  BY <1>1, <1>3, <1>4 DEF ViewsComplete

-----------------------------------------------------------------------------
(***************************************************************************)
(* The plugin runs once, on the file as the author left it.                *)
(***************************************************************************)
(* The code is that of the file, which passed the checks.                  *)
CodeInv ==
  /\ Legal(file)
  /\ plugin = "idle" => code = <<>>
  /\ code # <<>> => Checked(file) /\ code = <<Generated(file)>>

THEOREM CodeInvariant == Spec => []CodeInv
<1>1. Init => CodeInv
  BY DEF Init, CodeInv
<1>2. CodeInv /\ [Next]_vars => CodeInv'
  <2> SUFFICES ASSUME CodeInv, [Next]_vars PROVE CodeInv'
    OBVIOUS
  <2>1. CASE Edit
    BY <2>1 DEF Edit, CodeInv
  <2>2. CASE generate
    <3>1. file' = file /\ plugin' # "idle" /\ Legal(file)
      BY <2>2 DEF generate, CodeInv
    <3>2. CASE code' = <<>>
      BY <3>1, <3>2 DEF CodeInv
    <3>3. CASE code' = <<Generated(file)>> /\ Checked(file)
      BY <3>1, <3>3 DEF CodeInv
    <3>. QED
      BY <2>2, <3>1, <3>2, <3>3 DEF generate, Checked
  <2>3. CASE UNCHANGED vars
    BY <2>3 DEF vars, CodeInv
  <2>. QED
    BY <2>1, <2>2, <2>3 DEF Next
<1>. QED
  BY <1>1, <1>2, PTL DEF Spec

(* DeclarationsTakeEffect for every file and every edit of it: of a file   *)
(* that protoc and the plugin accept, an event takes its effect when it is *)
(* replayed, a stream has one creation, each annotation of a view is part  *)
(* of a key, and each view is complete and has its own place.  The events  *)
(* that remove by a field named id or actor are the exception, and the     *)
(* only one: they take the header for the key (validateCollectionMapping   *)
(* looks for a string of that name among all fields).                      *)
THEOREM DeclarationsTakeEffectCorrect == Spec => []DeclarationsTakeEffect
<1>1. CodeInv => DeclarationsTakeEffect
  <2>1. SUFFICES ASSUME CodeInv, code # <<>>
                 PROVE  /\ CollectionsChange(code[1]) /\ EmbedsLand(code[1])
                        /\ CreatedOnce(code[1]) /\ AnnotationsCount(code[1])
                        /\ ViewsComplete(code[1])
    BY DEF DeclarationsTakeEffect
  <2>2. Checked(file) /\ code[1] = Generated(file)
    BY <2>1 DEF CodeInv
  <2>. QED
    BY <2>2, CheckedCollections, CheckedEmbeds, CheckedCreation, CheckedAnnotations,
       CheckedViews
<1>. QED
  BY <1>1, CodeInvariant, PTL

=============================================================================
