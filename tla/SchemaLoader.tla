---------------------------- MODULE SchemaLoader ----------------------------
(***************************************************************************)
(* Loading a schema (loader/mod.rs): the shape of the whole document is    *)
(* judged first; then frontmatter, content and the tree of section rules   *)
(* are built, each rule reporting its own faults and registering its       *)
(* names; the constraints are bound last, against a tree that was built    *)
(* whole.  A schema loads only when nothing at all was reported.           *)
(*                                                                         *)
(* A source is a record [version, stray, title, outline, sections,         *)
(* frontmatter, linked, content, rules, scopes, keys]: `scopes` gives each *)
(* rule path, and <<>>, the fields of the scope below it, `keys` the order *)
(* in which a mapping spells captures, content and sections.               *)
(***************************************************************************)
EXTENDS SchemaBinder, SequencesExt

CONSTANT Sources    \* the schemas that may be loaded, a sequence of families of them

VARIABLES
    source,     \* the schema being loaded
    phase,      \* what the loader does next; "loaded" and "failed" are final
    todo,       \* the scopes and rules still to be visited
    errors,     \* what was reported, in order
    declared,   \* the names registered so far, each in its scope
    whole,      \* whether everything visited so far was built
    listed,     \* the scopes whose constraints are kept for binding
    bound       \* the constraints bound so far

vars == <<source, phase, todo, errors, declared, whole, listed, bound>>

----------------------------------------------------------------------------
(* The shape of the document                                               *)

Top(part) == Place(<<>>, part, <<>>)
Listed(src) == src.outline \/ src.sections

VersionFaults(src) ==
    ErrorIf(src.version = "other", "unsupported-version", Top("version"))
    \o Misshapen(src.version \in {"absent", "bad"}, Top("version"))
FormFaults(src) ==
    IF src.outline
    THEN ErrorIf(src.title.spelled # "absent", "conflicting-outline", Top("title"))
         \o ErrorIf(src.sections, "conflicting-outline", Top("sections"))
    ELSE Misshapen(src.title.spelled = "absent" /\ ~src.sections, Top("document"))

(* The fields of a scope that only an accepting list gives a meaning to.   *)
NeedingList(scope) ==
    {field \in {"extras", "unordered", "constraints"} :
        CASE field = "extras" -> scope.extras
          [] field = "unordered" -> scope.unordered # "absent"
          [] field = "constraints" -> scope.constraints # <<>>}
ScopeFaults(path, scope) ==
    IF scope.declared THEN <<>>
    ELSE [k \in 1..Cardinality(NeedingList(scope)) |->
            Error("invalid-document-shape", Place(path, "scope", <<>>))]

ConstraintIsFormed(constraint) ==
    /\ constraint.keyword \in Keywords
    /\ IF constraint.keyword \in Implications
       THEN Len(constraint.refs) = 1 /\ constraint.then # <<>>
       ELSE Len(constraint.refs) >= 2
ConstraintPlace(path, k) == Place(path, "constraint", <<k>>)
ConstraintShapeFaults(path, scope) ==
    ForEach(scope.constraints, LAMBDA k, constraint :
        Misshapen(~ConstraintIsFormed(constraint), ConstraintPlace(path, k)))

RuleShapeFaults(src, path) ==
    Misshapen(src.rules[path].stray, Place(path, "rule", <<>>))
    \o Misshapen(src.rules[path].required = "bad", Place(path, "required", <<>>))
    \o ConstraintShapeFaults(path, src.scopes[path])
    \o ScopeFaults(path, src.scopes[path])

FrontmatterShapeFaults(front) ==
    Misshapen(front.spelled = "bad" \/ front.stray, Top("frontmatter"))
    \o Misshapen(front.required = "bad", Top("frontmatter.required"))
    \o Misshapen(front.allow = "bad", Top("frontmatter.allow"))
    \o Misshapen(front.schema = "bad", Top("frontmatter.schema"))

(* Rule paths in the order the loader walks them: parents, then children.  *)
Visited(paths) ==
    SetToSortSeq(paths, LAMBDA left, right : left # right /\ Precedes(left, right))

(* The rules are those of `sections` when both lists are spelled; under a  *)
(* conflict the rules of `outline` are left to the next load.              *)
ShapeFaults(src) ==
    VersionFaults(src)
    \o Misshapen(src.stray, Top("document"))
    \o FormFaults(src)
    \o ScopeFaults(<<>>, src.scopes[<<>>])
    \o Misshapen(src.title.spelled = "bad", Top("title"))
    \o FrontmatterShapeFaults(src.frontmatter)
    \o (IF src.outline /\ ~src.sections /\ FormFaults(src) # <<>> THEN <<>>
        ELSE LET paths == Visited(DOMAIN src.rules)
             IN  ForEach(paths, LAMBDA k, path : RuleShapeFaults(src, path)))
    \o ScopeFaults(<<>>, src.scopes[<<>>])
    \o ConstraintShapeFaults(<<>>, src.scopes[<<>>])

----------------------------------------------------------------------------
(* Frontmatter                                                             *)

FrontmatterCapturePlace(k) == Place(<<>>, "frontmatter.captures", <<k>>)
FrontmatterCaptureFaults(entry, k) ==
    ErrorIf(entry.name = Malformed, "invalid-capture", FrontmatterCapturePlace(k))
    \o ErrorIf(~entry.typed, "invalid-capture", FrontmatterCapturePlace(k))
    \o ErrorIf(~entry.flagged, "invalid-capture", FrontmatterCapturePlace(k))
    \o ErrorIf(~entry.located, "invalid-capture", FrontmatterCapturePlace(k))
FrontmatterCapturesFaults(captures) ==
    IF captures.spelled = "bad"
    THEN <<Error("invalid-capture", Top("frontmatter.captures"))>>
    ELSE ForEach(captures.entries, LAMBDA k, entry : FrontmatterCaptureFaults(entry, k))

ConflictFaults(front) ==
    ErrorIf(front.required = "true" /\ front.allow = "false",
            "conflicting-frontmatter", Top("frontmatter"))
    \o ErrorIf(front.captures.spelled # "absent" /\ front.allow = "false",
               "conflicting-frontmatter", Top("frontmatter.captures"))
(* A path needs a context that read the linked files; either spelling must *)
(* compile.                                                                *)
DelegatedFaults(front, linked) ==
    ErrorIf(\/ front.schema = "path" /\ linked # "good"
            \/ front.schema = "inline broken",
            "invalid-frontmatter-schema", Top("frontmatter.schema"))
FrontmatterFaults(src) ==
    ConflictFaults(src.frontmatter)
    \o FrontmatterCapturesFaults(src.frontmatter.captures)
    \o DelegatedFaults(src.frontmatter, src.linked)
FrontmatterNames(front) ==
    {front.captures.entries[k].name : k \in DOMAIN front.captures.entries}

----------------------------------------------------------------------------
(* Scopes                                                                  *)

ChildrenOf(src, path) ==
    {child \in DOMAIN src.rules : Len(child) = Len(path) + 1 /\ ParentScope(child) = path}

VisitScope(path) == [task |-> "scope", path |-> path]
VisitRule(path) == [task |-> "rule", path |-> path]
CloseScope(path) == [task |-> "close", path |-> path]
VisitBind(path, k) == [task |-> "bind", path |-> Append(path, k)]

Init ==
    /\ \E family \in DOMAIN Sources : source \in Sources[family]
    /\ phase = "shape"
    /\ todo = <<>> /\ errors = <<>> /\ declared = <<>> /\ whole = TRUE
    /\ listed = <<>> /\ bound = <<>>

(* A failure says why: the loader has a sentence for having nothing to say.*)
Unexplained == Error("could-not-be-loaded", Nowhere)
Failure(reported) == IF reported = <<>> THEN <<Unexplained>> ELSE reported

CheckShape ==
    /\ phase = "shape"
    /\ errors' = ShapeFaults(source)
    /\ phase' = IF errors' = <<>> THEN "frontmatter" ELSE "failed"
    /\ UNCHANGED <<source, todo, declared, whole, listed, bound>>

BuildFrontmatter ==
    /\ phase = "frontmatter"
    /\ errors' = errors \o FrontmatterFaults(source)
    /\ whole' = (whole /\ FrontmatterFaults(source) = <<>>)
    /\ phase' = "content"
    /\ UNCHANGED <<source, todo, declared, listed, bound>>

(* The content of one owner.  A named content rule opens a scope, which is  *)
(* judged as soon as the rule is built.                                    *)
ContentFaults(owner, content, names) ==
    IF content.spelled = "bad" THEN Wrong(TRUE, Place(owner, "content", <<>>))
    ELSE ForEach(content.entries, LAMBDA i, rule :
             IF ContentRuleBuilds(owner, i, rule) /\ rule.id # None
             THEN CollisionFaults(names, ContentScope(owner, i), source.keys)
             ELSE ContentRuleFaults(owner, i, rule))

(* The content at the top, then the title that a sugar schema spells.      *)
BuildTopContent ==
    /\ phase = "content"
    /\ LET names == ContentDeclarations(<<>>, source.content)
           faults == ContentFaults(<<>>, source.content, names)
           titled == source.title.spelled = "text"
           title == IF titled THEN MatcherFaults(source.title.match, Top("title")) ELSE <<>>
       IN  /\ errors' = errors \o faults \o title
           /\ whole' = (whole /\ faults = <<>> /\ title = <<>>)
           /\ declared' = declared \o names
    /\ todo' = <<VisitScope(<<>>)>>
    /\ phase' = "rules"
    /\ UNCHANGED <<source, listed, bound>>

Current == Head(todo)
Doing(task) == phase = "rules" /\ todo # <<>> /\ Current.task = task

(* A declared scope keeps its constraints and builds its rules in order.   *)
OpenScope ==
    /\ Doing("scope")
    /\ LET path == Current.path
           rules == Visited(ChildrenOf(source, path))
       IN  /\ todo' = [k \in DOMAIN rules |-> VisitRule(rules[k])]
                      \o <<CloseScope(path)>> \o Tail(todo)
           /\ listed' = IF source.scopes[path].declared THEN Append(listed, path) ELSE listed
    /\ UNCHANGED <<source, phase, errors, declared, whole, bound>>

(* One rule: everything it spells is judged, whatever else is at fault.    *)
BuildRule ==
    /\ Doing("rule")
    /\ LET path == Current.path
           rule == source.rules[path]
           unordered == source.scopes[ParentScope(path)].unordered = "true"
           names == ContentDeclarations(path, rule.content)
           content == ContentFaults(path, rule.content, names)
       IN  /\ errors' = errors \o RuleHeadFaults(source.rules, path, unordered)
                        \o content \o RuleValueFaults(path, rule)
           /\ whole' = (whole /\ RuleBuilds(path, rule) /\ content = <<>>)
           /\ declared' = declared \o SectionDeclarations(path, rule) \o names
                          \o CaptureDeclarations(path, rule)
           /\ todo' = <<VisitScope(path)>> \o Tail(todo)
    /\ UNCHANGED <<source, phase, listed, bound>>

(* A scope's names are judged once all of its rules are in.                *)
LeaveScope ==
    /\ Doing("close")
    /\ LET path == Current.path
           collisions == CollisionFaults(declared, SectionsScope(path), source.keys)
           guards == GuardFaults(path, source.scopes[path].guards)
       IN  /\ errors' = errors \o (IF source.scopes[path].declared
                                   THEN collisions \o guards ELSE guards \o collisions)
           /\ whole' = (whole /\ collisions = <<>> /\ guards = <<>>)
    /\ todo' = Tail(todo)
    /\ UNCHANGED <<source, phase, declared, listed, bound>>

----------------------------------------------------------------------------
(* Constraints                                                             *)

Kept ==
    ForEach(listed, LAMBDA j, path :
        [k \in DOMAIN source.scopes[path].constraints |-> VisitBind(path, k)])

(* Without a whole schema nothing binds; only syntax is still judged.      *)
GiveUp ==
    /\ phase = "rules" /\ todo = <<>> /\ ~whole
    /\ LET lexical == ForEach(Kept, LAMBDA k, task :
               LET path == ParentScope(task.path)
                   kinds == LexicalKinds(source.scopes[path].constraints[PositionIn(task.path)])
               IN  [j \in DOMAIN kinds |->
                       Error(kinds[j], ConstraintPlace(path, PositionIn(task.path)))])
       IN  errors' = Failure(errors \o lexical)
    /\ phase' = "failed"
    /\ UNCHANGED <<source, todo, declared, whole, listed, bound>>

StartBinding ==
    /\ phase = "rules" /\ todo = <<>> /\ whole
    /\ phase' = "binding"
    /\ todo' = Kept
    /\ UNCHANGED <<source, errors, declared, whole, listed, bound>>

Forest ==
    [rules |-> source.rules, scopes |-> source.scopes, content |-> source.content,
     frontmatterNames |-> FrontmatterNames(source.frontmatter)]

BindConstraint ==
    /\ phase = "binding" /\ todo # <<>>
    /\ LET path == ParentScope(Current.path)
           k == PositionIn(Current.path)
           constraint == source.scopes[path].constraints[k]
       IN  \E kinds \in {ConstraintKinds(Forest, declared, path, constraint)} :
           /\ errors' = errors \o [j \in DOMAIN kinds |-> Error(kinds[j], ConstraintPlace(path, k))]
           /\ bound' = IF kinds = <<>> THEN Append(bound, Current.path) ELSE bound
    /\ todo' = Tail(todo)
    /\ UNCHANGED <<source, phase, declared, whole, listed>>

(* The bound constraints are installed only in a schema without an error.  *)
Finish ==
    /\ phase = "binding" /\ todo = <<>>
    /\ phase' = IF errors = <<>> THEN "loaded" ELSE "failed"
    /\ UNCHANGED <<source, todo, errors, declared, whole, listed, bound>>

Next ==
    \/ CheckShape \/ BuildFrontmatter \/ BuildTopContent
    \/ OpenScope \/ BuildRule \/ LeaveScope
    \/ GiveUp \/ StartBinding \/ BindConstraint \/ Finish

Spec == Init /\ [][Next]_vars
=============================================================================
