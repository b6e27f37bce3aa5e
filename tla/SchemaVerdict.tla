--------------------------- MODULE SchemaVerdict ---------------------------
(***************************************************************************)
(* What loading a schema promises: that a schema which loads can be        *)
(* validated against without guessing, and that one which does not is      *)
(* answered for every fault it has and for no fault it only inherits.      *)
(***************************************************************************)
EXTENDS SchemaLoader

Loaded == phase = "loaded"
Over == phase \in {"loaded", "failed"}
Judged == Over /\ ShapeFaults(source) = <<>>
Said == {[kind |-> errors[k].kind, at |-> errors[k].at] : k \in DOMAIN errors}
Saying(kind, places) == {[kind |-> kind, at |-> place] : place \in places}

(* Nothing fails to be built in silence: whenever a part of the schema was *)
(* not built an error has been reported already, so the loader never has   *)
(* to fall back on "schema could not be loaded" (mod.rs, `failure`).       *)
FailuresSayWhy ==
    /\ whole \/ errors # <<>>
    /\ \A k \in DOMAIN errors : errors[k] # Unexplained

----------------------------------------------------------------------------
Rules == DOMAIN source.rules
CaptureSites ==
    {<<path, k>> \in Rules \X (1..4) : k \in DOMAIN source.rules[path].captures.entries}
OrderSites ==
    {<<path, k>> \in Rules \X (1..4) : k \in DOMAIN source.rules[path].order.entries}

(* What each rule is answerable for on its own account.                    *)
OwnFaults ==
    LET Rule(path) == source.rules[path]
        Entry(site) == Rule(site[1]).captures.entries[site[2]]
        Alone(path) == Rule(path).required = "absent" /\ Rule(path).repeat = <<>>
    IN  Saying("invalid-matcher",
               {Place(path, "match", <<>>) : path \in {p \in Rules : Rule(p).match.kind = "bad"}})
        \cup Saying("missing-cardinality",
               {Place(path, "match", <<>>) :
                   path \in {p \in Rules : Alone(p) /\ Rule(p).match.kind # "exact"}})
        \cup Saying("reserved-id",
               {Place(path, "id", <<>>) : path \in {p \in Rules : Len(p) = 1 /\ Rule(p).id \in Reserved}})
        \cup Saying("invalid-capture",
               {CapturePlace(site[1], site[2]) : site \in
                   {s \in CaptureSites : Entry(s).name = Malformed \/ ~Entry(s).typed}})
        \cup Saying("invalid-order",
               {Place(site[1], "order", <<site[2]>>) : site \in
                   {s \in OrderSites : ~Rule(s[1]).order.entries[s[2]].formed}})
        \cup Saying("invalid-order",
               {Place(site[1], "order", <<site[2]>>) : site \in
                   {s \in OrderSites : Rule(s[1]).repeat = <<0, 1>> /\ Rule(s[1]).required = "absent"}})

(* What nobody may say, since the thing it would be judged by was never    *)
(* built: a group of a regex that did not compile, an `order` that only    *)
(* names a capture nobody could declare, a binding in a broken schema.     *)
Hearsay ==
    LET Rule(path) == source.rules[path]
        Sound(site) == LET entry == Rule(site[1]).order.entries[site[2]]
                       IN  /\ entry.formed
                           /\ \A k \in 1..(site[2] - 1) : Rule(site[1]).order.entries[k] # entry
        MayRepeat(path) == Rule(path).required = "absent" /\ Rule(path).repeat = <<1, Unbounded>>
    IN  Saying("invalid-capture",
               {CapturePlace(site[1], site[2]) : site \in
                   {s \in CaptureSites :
                       /\ Rule(s[1]).match.kind = "bad"
                       /\ Rule(s[1]).captures.entries[s[2]].name # Malformed
                       /\ Rule(s[1]).captures.entries[s[2]].typed}})
        \cup Saying("invalid-order",
               {Place(site[1], "order", <<site[2]>>) : site \in
                   {s \in OrderSites : /\ Sound(s) /\ MayRepeat(s[1])
                                       /\ \/ Rule(s[1]).captures.spelled = "bad"
                                          \/ /\ Rule(s[1]).match.kind = "bad"
                                             /\ Rule(s[1]).captures.entries # <<>>}})

(* Independent errors are collected together whichever rule and whichever  *)
(* field they are in, and a check whose input was never built is not       *)
(* attempted (spec 6.3): so a capture mapping at fault does not also fault *)
(* the `order` that relies on it, and constraints are bound or refused     *)
(* only against a tree that was built whole.                               *)
FaultsAreIndependent ==
    Judged => /\ OwnFaults \subseteq Said
              /\ Hearsay \cap Said = {}
              /\ ~whole => \A error \in Said :
                     error.kind \notin {"unresolved-ref", "duplicate-ref", "ordered-scope-mismatch"}

----------------------------------------------------------------------------
(* Every name that a reader of the schema meets in one scope: the rules    *)
(* below it, the captures and named content of the rule that owns it, and  *)
(* the named items of its anonymous lists.                                 *)
ContentOf(owner) == IF owner = <<>> THEN source.content ELSE source.rules[owner].content
ItemSites(owner) ==
    {<<i, j>> \in (1..3) \X (1..3) :
        /\ i \in DOMAIN ContentOf(owner).entries
        /\ j \in DOMAIN ContentOf(owner).entries[i].items.entries}
ItemAt(owner, site) == ContentOf(owner).entries[site[1]].items.entries[site[2]]

Bearers(scope) ==
    LET owner == scope.path
        content == ContentOf(owner).entries
    IN  CASE scope.part = "content" ->
             {ItemPlace(owner, site[1], site[2]) : site \in
                 {s \in ItemSites(owner) : s[1] = scope.index[1] /\ ItemAt(owner, s).id # None}}
          [] scope.part = "sections" ->
             {Place(path, "rule", <<>>) : path \in
                 {p \in ChildrenOf(source, owner) : RuleId(source.rules[p]) # None}}
             \cup {ContentPlace(owner, i) : i \in {k \in DOMAIN content : content[k].id # None}}
             \cup {ItemPlace(owner, site[1], site[2]) : site \in
                     {s \in ItemSites(owner) :
                         content[s[1]].id = None /\ ItemAt(owner, s).id # None}}
             \cup (IF owner = <<>> THEN {}
                   ELSE {CapturePlace(owner, k) : k \in DOMAIN source.rules[owner].captures.entries})
          [] OTHER -> {}
NameOf(bearer) ==
    CASE bearer.part = "rule" -> RuleId(source.rules[bearer.path])
      [] bearer.part = "content" -> ContentOf(bearer.path).entries[bearer.index[1]].id
      [] bearer.part = "item" -> ItemAt(bearer.path, bearer.index).id
      [] bearer.part = "captures" -> source.rules[bearer.path].captures.entries[bearer.index[1]].name

Scopes ==
    {SectionsScope(path) : path \in DOMAIN source.scopes}
    \cup UNION {{ContentScope(owner, i) : i \in {k \in DOMAIN ContentOf(owner).entries :
                                                    ContentOf(owner).entries[k].id # None}} :
                owner \in DOMAIN source.scopes}

(* In a schema that loads a name denotes one declaration of its scope,     *)
(* also when an anonymous list passed it up or when it is a capture of the *)
(* rule above; and whoever is told of a collision is told of a declaration *)
(* that the source spells earlier.                                         *)
NamesDenoteOneThing ==
    /\ Loaded => \A scope \in Scopes : \A left, right \in Bearers(scope) :
                     NameOf(left) = NameOf(right) => left = right
    /\ \A k \in DOMAIN errors : errors[k].kind = "duplicate-id" =>
           Precedes(Rank(errors[k].first, source.keys), Rank(errors[k].at, source.keys))

----------------------------------------------------------------------------
(* What a locator denotes, read off the schema itself.                     *)

(* What each step of a locator names, from the scope it starts in.         *)
NamedBy(here, locator) ==
    LET Opened(bearer) == IF bearer.part = "rule" THEN SectionsScope(bearer.path)
                          ELSE IF bearer.part = "content" THEN bearer ELSE Nowhere
        names[k \in 0..Len(locator.steps)] ==
            IF k = 0 THEN Place(IF locator.absolute THEN <<>> ELSE here, "rule", <<>>)
            ELSE LET found == {bearer \in Bearers(Opened(names[k - 1])) :
                                   NameOf(bearer) = locator.steps[k].name}
                 IN  IF found = {} THEN Nowhere ELSE CHOOSE bearer \in found : TRUE
    IN  [k \in DOMAIN locator.steps |-> names[k]]

(* How many headings a step can name below one heading.                    *)
MostNodes(bearer) == RuleCardinality(source.rules[bearer.path])[2]

Written(path) == source.scopes[path].constraints
Refs(constraint) == Range(constraint.refs) \cup Range(constraint.then)

(* A schema that loads has every constraint it was written with, and every *)
(* outline locator in one ends in a section rule and descends only through *)
(* steps that are narrowed or can name one node at most: a descent is left *)
(* undecided only by a document that already violates a maximum.           *)
DescentsAreNarrow ==
    Loaded =>
        /\ Range(bound) = UNION {{Append(path, k) : k \in DOMAIN Written(path)} :
                                 path \in DOMAIN source.scopes}
        /\ \A path \in DOMAIN source.scopes : \A k \in DOMAIN Written(path) :
             \A ref \in Refs(Written(path)[k]) :
                ref.form = "outline" =>
                    LET named == NamedBy(path, ref)
                    IN  /\ \A j \in DOMAIN named : named[j].part = "rule"
                        /\ \A j \in 1..(Len(named) - 1) :
                               ref.steps[j].at # Whole \/ MostNodes(named[j]) \in {0, 1}

(* Which occurrence of each ancestor the headings a locator denotes are    *)
(* under; one occurrence is 0, and CurrentOccurrence is the constraint's.  *)
Ancestors(here, ref) ==
    LET named == NamedBy(here, ref)
        path == Last(named).path
        written == Len(path) - Len(ref.steps)
        Only(k) == MostNodes(Place(SubSeq(path, 1, k), "rule", <<>>)) \in {0, 1}
    IN  [k \in 1..(Len(path) - 1) |->
            IF k <= written
            THEN IF Only(k) THEN {0} ELSE {CurrentOccurrence}
            ELSE LET at == ref.steps[k - written].at
                 IN  IF Only(k) THEN {0} \cap {IF at = Whole THEN 0 ELSE at} ELSE {at}]

(* The subscripts a locator spells, rule by rule down to its target; the   *)
(* rules a relative one leaves out have none.                              *)
Subscripts(here, ref) ==
    LET left == Len(Last(NamedBy(here, ref)).path) - Len(ref.steps)
    IN  [k \in 1..(left + Len(ref.steps)) |-> IF k <= left THEN Whole ELSE ref.steps[k - left].at]

(* `ordered` compares headings, so in a schema that loads the locators of  *)
(* one constraint stand below the same occurrence of every ancestor, in a  *)
(* scope that does not order its rules already, and no two are spelled for *)
(* the same declared rules with the same subscripts.                       *)
OrderedSharesOneScope ==
    Loaded =>
        \A here \in DOMAIN source.scopes : \A k \in DOMAIN Written(here) :
            Written(here)[k].keyword = "ordered" =>
                LET refs == Written(here)[k].refs
                    Target(j) == Last(NamedBy(here, refs[j])).path
                IN  \A i, j \in DOMAIN refs :
                        /\ ParentScope(Target(i)) = ParentScope(Target(j))
                        /\ Ancestors(here, refs[i]) = Ancestors(here, refs[j])
                        /\ source.scopes[ParentScope(Target(i))].unordered = "true"
                        /\ i = j \/ Target(i) # Target(j)
                                 \/ Subscripts(here, refs[i]) # Subscripts(here, refs[j])

(* What a constraint refers to is decided when the schema loads: every      *)
(* locator denotes one thing, and those of an order can be compared.        *)
LocatorsDenoteOne == DescentsAreNarrow /\ OrderedSharesOneScope
=============================================================================
