--------------------------- MODULE ValidatorProofs ---------------------------
(***************************************************************************)
(* Theorems about the validation walk, for any document, schema and        *)
(* option: no heading is judged twice or both bound and judged, nothing is *)
(* said twice, nothing is said within a subtree that skips a level, and an *)
(* order is reported only where every value could be read.                 *)
(***************************************************************************)
EXTENDS WalkLemmas

-----------------------------------------------------------------------------
(* The document and the schema are one of the cases.                        *)
Typed ==
    /\ level \in Seq(Nat \ {0}) /\ allowSkipped \in BOOLEAN
    /\ \A h \in 0 .. Len(level) :
          /\ IsSeq(preamble[h])
          /\ \A i \in DOMAIN preamble[h] : preamble[h][i].items = None \/ IsSeq(preamble[h][i].items)
    /\ schema.shape \in {"outline", "untitled", "titled"}
    /\ schema.scope \in Grammars \union {None} /\ schema.content \in Contents \union {None}
    /\ IsSeq(schema.captures)
    /\ frontmatter.is = "mapping" => frontmatter \in MappingBlocks

(* A heading that no skipped level keeps from being visited.                *)
Sound == {h \in Heading : allowSkipped \/ (~Skips(h) /\ (Parent(h) = 0 \/ ~Skips(Parent(h))))}
Anchor == {<<>>} \union {<<h>> : h \in Sound}
SoundSections(s) == s \in Seq(Sound) /\ Distinct(s)

(* What the walk has yet to visit.                                          *)
Opening == {"frontmatter", "captures", "levels", "root"}
FitsItems(t) ==
    /\ t.of \in {0} \union Sound /\ t.block \in DOMAIN preamble[t.of]
    /\ IsSeq(preamble[t.of][t.block].items)
    /\ t.rules \in Contents /\ t.path \in Seq(Nat)
FitsTask(t) ==
    /\ t.do \in Opening \union {"refuse_titles", "content", "items", "scope", "constraints", "capture", "order"}
    /\ t.do = "content" => /\ t.of \in {0} \union Sound /\ t.rules \in Contents \union {None}
                           /\ t.path \in Seq(Nat) /\ t.absence \in Anchor
    /\ t.do = "items" => FitsItems(t)
    /\ t.do = "scope" => /\ SoundSections(t.sections) /\ t.scope \in Grammars \union {None}
                         /\ t.path \in Seq(Nat) /\ t.parent \in Anchor
    /\ t.do = "constraints" => /\ SoundSections(t.current.sections) /\ t.current.scope \in Grammars \union {None}
                               /\ t.current.path \in Seq(Nat) /\ t.parent \in Anchor
    /\ t.do = "capture" => t.of \in Sound /\ bound[t.of] # None
    /\ t.do = "order" => SoundSections(t.sections) /\ IsSeq(t.rules) /\ t.path \in Seq(Nat)

(* What has been said.                                                      *)
Placed(d) == \/ d.at = <<>> \/ Head(d.at) \in {0} \union Sound
             \/ d.id = <<"skipped-level", "section">>
FitsRecord(p) == p.hidden \in BOOLEAN /\ Placed(p.diagnostic)

(* What is left to do and what has been said fit the document.              *)
Shaped ==
    /\ IsSeq(agenda) /\ \A t \in Lists!ToSet(agenda) : FitsTask(t)
    /\ IsSeq(pending) /\ \A p \in Lists!ToSet(pending) : FitsRecord(p)
    /\ outcome \in {"running", "reported", "failed", "refused"}
    /\ DOMAIN bound = Heading
    /\ captured \in [Heading -> {"unevaluated", "valid", "invalid"}]

(* The headings that a scope yet to be bound has,                           *)
Listed(t) == IF t.do = "scope" THEN Lists!ToSet(t.sections) ELSE {}
(* Untouched yet.                                                           *)
Fresh(h) == bound[h] = None /\ Judgements(h) = {}

(* Before the root is entered, and after.                                   *)
Opened == \A k \in DOMAIN agenda : agenda[k].do \notin Opening
Unopened ==
    /\ agenda \in {<<Task("frontmatter"), Task("captures"), Task("levels"), Task("root")>>,
                   <<Task("captures"), Task("levels"), Task("root")>>,
                   <<Task("levels"), Task("root")>>, <<Task("root")>>}
    /\ \A h \in Heading : Fresh(h)

(* Titles are refused once at most, and none of them is bound or judged     *)
(* before.                                                                  *)
Refusing ==
    /\ \A k, l \in DOMAIN agenda : agenda[k].do = "refuse_titles" /\ agenda[l].do = "refuse_titles" => k = l
    /\ \A k \in DOMAIN agenda : agenda[k].do = "refuse_titles" =>
          schema.shape = "untitled" /\ \A h \in Heading : level[h] = 1 => Judgements(h) = {}
    /\ \A h \in Heading : bound[h] # None /\ schema.shape # "outline" => level[h] # 1

(* A scope that is yet to be bound has headings that nothing is known of,   *)
(* nor of those next to them, and no other scope has any of these.          *)
ListedOnce ==
    /\ \A k \in DOMAIN agenda : \A h \in Listed(agenda[k]) :
          /\ Reached(h) /\ Judgements(h) = {} /\ (schema.shape = "outline" \/ level[h] # 1)
          /\ \A g \in Heading : Parent(g) = Parent(h) => bound[g] = None
    /\ \A k, l \in DOMAIN agenda : \A g \in Listed(agenda[k]), h \in Listed(agenda[l]) :
          Parent(g) = Parent(h) => k = l

(* What is bound stays apart from what is judged.                           *)
Apart ==
    \A h \in Heading :
        /\ bound[h] # None => Judgements(h) = {}
        /\ \A i, j \in Judgements(h) : i = j
        /\ Judgements(h) # {} \/ bound[h] # None => Reached(h)

(* No scope has a heading next to this one.                                 *)
Alone(h) == \A k \in DOMAIN agenda : \A g \in Listed(agenda[k]) : Parent(g) # Parent(h)

(* Only bound headings are evaluated, and no unreadable value is valid.     *)
EvaluatedOfBound ==
    \A h \in Heading : /\ captured[h] # "unevaluated" => bound[h] # None
                       /\ captured[h] = "valid" => text[h].value # Unparsable

(* An order that is yet to be judged is of all bound headings of one scope. *)
OrderedAlone ==
    \A k \in DOMAIN agenda : agenda[k].do = "order" =>
        \A h \in Lists!ToSet(agenda[k].sections) :
            /\ Reached(h) /\ Alone(h)
            /\ \A g \in Heading : Parent(g) = Parent(h) /\ bound[g] # None => g \in Lists!ToSet(agenda[k].sections)

OrderViolation(d, h) == d.id = <<"order-violation", "section">> /\ d.at = <<h>>

(* An order violation is said of headings that all have a readable value,   *)
(* and no scope will bind another next to them.                             *)
ViolatedAlone ==
    \A i \in DOMAIN pending : \A h \in Heading :
        OrderViolation(pending[i].diagnostic, h) =>
            /\ bound[h] # None /\ Alone(h)
            /\ \A g \in Heading : Parent(g) = Parent(h) /\ bound[g] = bound[h] => text[g].value # Unparsable

(* All of it: what holds at every step of the walk.                         *)
Walking ==
    /\ Typed /\ Shaped /\ (Unopened \/ Opened) /\ Refusing /\ ListedOnce /\ Apart
    /\ EvaluatedOfBound /\ OrderedAlone /\ ViolatedAlone

-----------------------------------------------------------------------------
(* A step says what it says after what was said, each diagnostic once,      *)
Extended(D) ==
    /\ IsSeq(pending') /\ DOMAIN pending \subseteq DOMAIN pending'
    /\ \A i \in DOMAIN pending : pending'[i] = pending[i]
    /\ \A i \in DOMAIN pending' \ DOMAIN pending : pending'[i].diagnostic \in D /\ pending'[i].hidden \in BOOLEAN
    /\ \A i, j \in DOMAIN pending' \ DOMAIN pending : pending'[i].diagnostic = pending'[j].diagnostic => i = j

(* What `Emit` adds are records of what is said,                            *)
LEMMA EmitExtends ==
    ASSUME NEW D, IsFiniteSet(D), IsSeq(pending), Emit(D)
    PROVE  Extended(D)
<1> DEFINE f == [d \in D |-> [diagnostic |-> d, hidden |-> IsHidden(d)]]
           R == {f[d] : d \in DOMAIN f}
           t == Lists!SetToSeq(R)
<1>1. IsFiniteSet(R)
  <2>1. DOMAIN f = D
    OBVIOUS
  <2> HIDE DEF f
  <2>2. QED
    BY <2>1, ValuesAreFinite
<1>2. \A r \in R : r.diagnostic \in D /\ r.hidden \in BOOLEAN
  <2>1. \A d \in D : f[d].diagnostic = d /\ f[d].hidden = IsHidden(d)
    OBVIOUS
  <2>2. \A d : IsHidden(d) \in BOOLEAN
    BY DEF IsHidden
  <2>3. DOMAIN f = D
    OBVIOUS
  <2> HIDE DEF f
  <2>4. QED
    BY <2>1, <2>2, <2>3
<1>3. \A r, q \in R : r.diagnostic = q.diagnostic => r = q
  OBVIOUS
<1>4. pending' = Joined(pending, t)
  BY DEF Emit, Joined
<1> HIDE DEF R
<1>5. t \in Seq(R) /\ Distinct(t)
  BY <1>1, SetToSeqFacts
<1> HIDE DEF t
<1> DEFINE n == Len(pending)  k == Len(t)
<1>6. n \in Nat /\ k \in Nat /\ DOMAIN pending = 1 .. n /\ DOMAIN t = 1 .. k /\ \A i \in 1 .. k : t[i] \in R
  BY <1>5, SeqFacts
<1>7. /\ pending' \in Seq(Lists!ToSet(pending) \union R)
      /\ DOMAIN pending' = 1 .. n + k
      /\ \A i \in 1 .. n : pending'[i] = pending[i]
      /\ \A i \in 1 .. k : pending'[n + i] = t[i]
  <2> DEFINE T == Lists!ToSet(pending) \union R
  <2>1. pending \in Seq(T) /\ t \in Seq(T)
    BY <1>5, <1>6, SeqFacts
  <2> HIDE DEF T
  <2>2. QED
    BY <1>4, <1>6, <2>1 DEF Joined, T
<1>8. IsSeq(pending')
  BY <1>7, SeqIsSeq
<1> HIDE DEF n, k
<1>9. \A i \in DOMAIN pending' \ DOMAIN pending : i - n \in 1 .. k /\ pending'[i] = t[i - n]
  <2>1. \A i \in DOMAIN pending' \ DOMAIN pending : i - n \in 1 .. k /\ n + (i - n) = i
    BY <1>6, <1>7
  <2>2. QED
    BY <1>7, <2>1
<1>10. \A i \in DOMAIN pending' \ DOMAIN pending : pending'[i].diagnostic \in D /\ pending'[i].hidden \in BOOLEAN
  BY <1>2, <1>6, <1>9
<1>11. ASSUME NEW i \in DOMAIN pending' \ DOMAIN pending, NEW j \in DOMAIN pending' \ DOMAIN pending,
              pending'[i].diagnostic = pending'[j].diagnostic
       PROVE  i = j
  <2>1. t[i - n] = t[j - n]
    BY <1>3, <1>6, <1>9, <1>11
  <2>2. i - n = j - n
    BY <1>5, <1>6, <1>9, <2>1 DEF Distinct
  <2>3. QED
    BY <1>6, <1>7, <2>2
<1>12. DOMAIN pending \subseteq DOMAIN pending' /\ \A i \in DOMAIN pending : pending'[i] = pending[i]
  BY <1>6, <1>7
<1>13. QED
  BY <1>8, <1>10, <1>11, <1>12 DEF Extended

(* and a step that is silent adds none.                                     *)
LEMMA SilenceExtends ==
    ASSUME IsSeq(pending), UNCHANGED pending
    PROVE  Extended({})
BY DEF Extended, IsSeq

(* and puts its tasks before what is left.                                  *)
Earlier(k, tasks) == k - Len(tasks) + 1
Continued(tasks) ==
    /\ IsSeq(agenda')
    /\ \A k \in DOMAIN agenda' :
          \/ k \in DOMAIN tasks /\ agenda'[k] = tasks[k]
          \/ /\ k \notin DOMAIN tasks /\ Earlier(k, tasks) \in DOMAIN agenda /\ Earlier(k, tasks) # 1
             /\ agenda'[k] = agenda[Earlier(k, tasks)]
    /\ \A k, l \in DOMAIN agenda' : Earlier(k, tasks) = Earlier(l, tasks) => k = l

(* The first task makes way for the new ones; the others move by their      *)
(* number.                                                                  *)
LEMMA ContinueMoves ==
    ASSUME NEW T, NEW tasks \in Seq(T), IsSeq(agenda), agenda # <<>>, Continue(tasks)
    PROVE  Continued(tasks)
<1> DEFINE n == Len(agenda)  m == Len(tasks)  U == T \union Lists!ToSet(agenda)
<1>1. n \in Nat /\ m \in Nat /\ DOMAIN agenda = 1 .. n /\ DOMAIN tasks = 1 .. m /\ n # 0
  BY SeqFacts
<1>2. agenda \in Seq(U) /\ tasks \in Seq(U)
  BY SeqFacts
<1> HIDE DEF U
<1>3. /\ Tail(agenda) \in Seq(U) /\ Len(Tail(agenda)) = n - 1
      /\ \A i \in 1 .. n - 1 : Tail(agenda)[i] = agenda[i + 1]
  BY <1>1, <1>2
<1> DEFINE t == Tail(agenda)
<1>4. agenda' = Joined(tasks, t)
  BY DEF Continue, Joined
<1> HIDE DEF t
<1>5. /\ t \in Seq(U) /\ Len(t) = n - 1 /\ \A i \in 1 .. n - 1 : t[i] = agenda[i + 1]
  BY <1>3 DEF t
<1>6. /\ agenda' \in Seq(U) /\ DOMAIN agenda' = 1 .. m + (n - 1)
      /\ \A i \in 1 .. m : agenda'[i] = tasks[i]
      /\ \A i \in 1 .. n - 1 : agenda'[m + i] = t[i]
  BY <1>1, <1>2, <1>4, <1>5 DEF Joined
<1> HIDE DEF n, m
<1>7. ASSUME NEW k \in DOMAIN agenda', k \notin DOMAIN tasks
      PROVE  /\ Earlier(k, tasks) \in DOMAIN agenda /\ Earlier(k, tasks) # 1
             /\ agenda'[k] = agenda[Earlier(k, tasks)]
  <2>1. k - m \in 1 .. n - 1 /\ m + (k - m) = k
    BY <1>1, <1>6, <1>7
  <2>2. agenda'[k] = agenda[k - m + 1]
    BY <1>5, <1>6, <2>1
  <2>3. QED
    BY <1>1, <2>1, <2>2 DEF Earlier, m
<1>8. ASSUME NEW k \in DOMAIN agenda', k \in DOMAIN tasks PROVE agenda'[k] = tasks[k]
  BY <1>1, <1>6, <1>8
<1>9. \A k, l \in DOMAIN agenda' : Earlier(k, tasks) = Earlier(l, tasks) => k = l
  BY <1>1, <1>6 DEF Earlier, m
<1>10. IsSeq(agenda')
  BY <1>6, SeqIsSeq
<1>11. QED
  BY <1>7, <1>8, <1>9, <1>10 DEF Continued

(* What is bound stays bound.                                               *)
Growing == \A h \in Heading : bound[h] # None => bound'[h] # None

(* The document and the schema stay, and with them what headings are.       *)
LEMMA InputStays ==
    ASSUME UNCHANGED input
    PROVE  /\ Heading' = Heading /\ Typed' = Typed
           /\ Sound' = Sound /\ Anchor' = Anchor
           /\ \A h : Parent(h)' = Parent(h) /\ Skips(h)' = Skips(h)
           /\ \A t : FitsItems(t)' = FitsItems(t)
           /\ \A d : Placed(d)' = Placed(d)
<1> USE DEF input
<1>1. Heading' = Heading
  BY DEF Heading
<1>2. \A h : Parent(h)' = Parent(h)
  BY DEF Parent
<1>3. RootLevel' = RootLevel
  BY <1>1 DEF RootLevel, HasTitle
<1>4. \A h : Skips(h)' = Skips(h)
  BY <1>2, <1>3 DEF Skips
<1>5. Sound' = Sound
  BY <1>1, <1>2, <1>4 DEF Sound
<1>6. Anchor' = Anchor
  BY <1>5 DEF Anchor
<1>7. Typed' = Typed
  BY DEF Typed
<1>8. \A t : FitsItems(t)' = FitsItems(t)
  BY <1>5 DEF FitsItems
<1>9. \A d : Placed(d)' = Placed(d)
  BY <1>5 DEF Placed
<1>10. QED
  BY <1>1, <1>2, <1>4, <1>5, <1>6, <1>7, <1>8, <1>9

(* The parent of a heading comes before it and is of a lower level.         *)
LEMMA ParentFacts ==
    ASSUME Typed, NEW h \in Heading
    PROVE  /\ Heading \subseteq Nat \ {0} /\ level[h] \in Nat \ {0}
           /\ Parent(h) # 0 => Parent(h) \in Heading /\ Parent(h) < h /\ level[Parent(h)] < level[h]
           /\ level[h] = 1 => Parent(h) = 0
           /\ \A g \in Heading : g < h /\ level[g] < level[h] => Parent(h) # 0 /\ g <= Parent(h)
<1> DEFINE above == {g \in 1 .. h - 1 : level[g] < level[h]}
<1>1. Heading = 1 .. Len(level) /\ Len(level) \in Nat /\ \A g \in Heading : level[g] \in Nat \ {0}
  BY DEF Typed, Heading
<1>2. above \subseteq 1 .. h - 1 /\ \A g \in 1 .. h - 1 : g \in Heading /\ g < h /\ h - g \in Nat
  BY <1>1
<1>3. Parent(h) = IF above = {} THEN 0 ELSE CHOOSE g \in above : \A k \in above : k <= g
  BY DEF Parent
<1> DEFINE gaps == {n \in Nat : \E g \in above : n = h - g}
<1>4. CASE above # {}
  <2>1. gaps \subseteq Nat /\ gaps # {}
    BY <1>2, <1>4
  <2>2. PICK n \in gaps : \A k \in gaps : n <= k
    BY <2>1, LeastOf
  <2>3. PICK g \in above : n = h - g
    BY <2>2
  <2>4. ASSUME NEW k \in above PROVE k <= g
    <3>1. h - k \in gaps
      BY <1>2
    <3>2. h - g <= h - k
      BY <2>2, <2>3, <3>1
    <3>3. k \in Int /\ g \in Int /\ h \in Int
      BY <1>1, <1>2, <2>3
    <3>4. QED
      BY <3>2, <3>3
  <2> HIDE DEF above
  <2>5. Parent(h) \in above /\ \A k \in above : k <= Parent(h)
    BY <1>3, <1>4, <2>4
  <2>6. Parent(h) \in Heading /\ Parent(h) # 0 /\ Parent(h) < h /\ level[Parent(h)] < level[h]
    BY <1>1, <1>2, <2>5 DEF above
  <2>7. ASSUME NEW b \in Heading, b < h, level[b] < level[h] PROVE b <= Parent(h)
    <3>1. b \in above
      BY <1>1, <2>7 DEF above
    <3>2. QED
      BY <2>5, <3>1
  <2>8. QED
    BY <1>1, <2>6, <2>7
<1>5. CASE above = {}
  <2>1. ASSUME NEW g \in Heading, g < h, level[g] < level[h] PROVE FALSE
    <3>1. g \in above
      BY <1>1, <2>1
    <3>2. QED
      BY <1>5, <3>1
  <2>2. QED
    BY <1>1, <1>3, <1>5, <2>1
<1>6. QED
  BY <1>4, <1>5

(* What was within reach stays so while headings are bound,                 *)
LEMMA ReachedStays ==
    ASSUME UNCHANGED input, Growing, Typed, NEW h \in Heading, Reached(h)
    PROVE  Reached(h)'
<1>1. /\ Heading' = Heading /\ Parent(h)' = Parent(h) /\ level' = level /\ schema' = schema
      /\ allowSkipped' = allowSkipped
  BY InputStays DEF input
<1>2. RootLevel' = RootLevel
  BY <1>1 DEF RootLevel, HasTitle, Heading
<1>3. Parent(h) # 0 => Parent(h) \in Heading
  BY ParentFacts
<1>4. Admits(RootLevel, h)' = Admits(RootLevel, h) /\ Admits(level[Parent(h)], h)' = Admits(level[Parent(h)], h)
  BY <1>1, <1>2 DEF Admits
<1>5. bound[Parent(h)] # None /\ Parent(h) # 0 => bound'[Parent(h)] # None
  BY <1>3 DEF Growing
<1> DEFINE p == Parent(h)
<1>6. QED
  BY <1>1, <1>4, <1>5 DEF Reached

(* and a task that fitted the document still does.                          *)
LEMMA FitsStays ==
    ASSUME UNCHANGED input, Growing, NEW t, FitsTask(t)
    PROVE  FitsTask(t)'
<1>1. Sound' = Sound /\ Anchor' = Anchor /\ FitsItems(t)' = FitsItems(t)
  BY InputStays
<1>2. t.of \in Sound => t.of \in Heading
  BY DEF Sound
<1>3. QED
  BY <1>1, <1>2 DEF FitsTask, SoundSections, Growing

(* A sequence is one over any set that has its elements.                    *)
LEMMA SeqOfSet ==
    ASSUME NEW T, NEW s \in Seq(T), NEW U, Lists!ToSet(s) \subseteq U
    PROVE  s \in Seq(U)
<1>1. Len(s) \in Nat /\ s = [i \in 1 .. Len(s) |-> s[i]] /\ \A i \in 1 .. Len(s) : s[i] \in U
  BY DEF Lists!ToSet
<1>2. QED
  BY <1>1

(* The headings under another, or under the root.                           *)
LEMMA UnderFacts ==
    ASSUME Typed, NEW h
    PROVE  /\ Under(h) \in Seq(Heading) /\ Distinct(Under(h))
           /\ Lists!ToSet(Under(h)) = {g \in Heading : Parent(g) = h}
<1> DEFINE all == [i \in Heading |-> i]
<1>1. Heading = 1 .. Len(level) /\ Len(level) \in Nat
  BY DEF Typed, Heading
<1>2. all \in Seq(Heading)
  BY <1>1
<1>3. Lists!ToSet(all) = Heading /\ Distinct(all)
  BY DEF Lists!ToSet, Distinct
<1>4. Under(h) = Only(all, {g \in Heading : Parent(g) = h})
  BY DEF Under
<1> HIDE DEF all
<1>5. QED
  BY <1>2, <1>3, <1>4, OnlyFacts

(* Keeping some headings of a sequence keeps it sound.                      *)
LEMMA AmongFacts ==
    ASSUME NEW s, s \in Seq(Heading), Distinct(s), NEW S, Lists!ToSet(s) \cap S \subseteq Sound
    PROVE  /\ SoundSections(Only(s, S)) /\ Lists!ToSet(Only(s, S)) = Lists!ToSet(s) \cap S
<1>1. Only(s, S) \in Seq(Heading) /\ Distinct(Only(s, S)) /\ Lists!ToSet(Only(s, S)) = Lists!ToSet(s) \cap S
  BY OnlyFacts
<1>2. Only(s, S) \in Seq(Sound)
  BY <1>1, SeqOfSet
<1>3. QED
  BY <1>1, <1>2 DEF SoundSections

(* The child sections of a heading are the headings under it that it        *)
(* admits;                                                                  *)
LEMMA ChildSectionsFacts ==
    ASSUME Typed, NEW h \in Sound
    PROVE  /\ SoundSections(ChildSections(h))
           /\ \A g : g \in Lists!ToSet(ChildSections(h)) <=> g \in Heading /\ Parent(g) = h /\ Admits(level[h], g)
<1> DEFINE S == {g \in Heading : Admits(level[h], g)}
<1>1. h \in Heading /\ h # 0
  BY ParentFacts DEF Sound
<1>2. ASSUME NEW g \in Heading, Parent(g) = h, Admits(level[h], g) PROVE g \in Sound
  <2>1. level[g] \in Nat /\ level[h] \in Nat
    BY <1>1, ParentFacts
  <2>2. ~allowSkipped => ~Skips(g) /\ ~Skips(h)
    BY <1>1, <1>2, <2>1 DEF Admits, Skips, Sound
  <2>3. QED
    BY <1>2, <2>2 DEF Sound
<1>3. Under(h) \in Seq(Heading) /\ Distinct(Under(h)) /\ Lists!ToSet(Under(h)) = {g \in Heading : Parent(g) = h}
  BY UnderFacts
<1>4. Lists!ToSet(Under(h)) \cap S \subseteq Sound
  BY <1>2, <1>3
<1>5. ChildSections(h) = Only(Under(h), S)
  BY DEF ChildSections
<1> HIDE DEF S
<1>6. SoundSections(ChildSections(h)) /\ Lists!ToSet(ChildSections(h)) = Lists!ToSet(Under(h)) \cap S
  BY <1>3, <1>4, <1>5, AmongFacts
<1>7. QED
  BY <1>3, <1>6 DEF S

(* those of the root are the headings under it that its level admits.       *)
LEMMA AdmittedAtRootFacts ==
    ASSUME Typed, NEW base, base = RootLevel
    PROVE  /\ SoundSections(AdmittedAtRoot(base))
           /\ \A g : g \in Lists!ToSet(AdmittedAtRoot(base)) <=> g \in Heading /\ Parent(g) = 0 /\ Admits(base, g)
<1> DEFINE S == {g \in Heading : Admits(base, g)}
<1>1. ASSUME NEW g \in Heading, Parent(g) = 0, Admits(base, g) PROVE g \in Sound
  <2>1. level[g] \in Nat /\ RootLevel \in Nat
    BY ParentFacts DEF RootLevel, Typed
  <2>2. ~allowSkipped => ~Skips(g)
    BY <1>1, <2>1 DEF Admits, Skips
  <2>3. QED
    BY <1>1, <2>2 DEF Sound
<1>2. Under(0) \in Seq(Heading) /\ Distinct(Under(0)) /\ Lists!ToSet(Under(0)) = {g \in Heading : Parent(g) = 0}
  BY UnderFacts
<1>3. Lists!ToSet(Under(0)) \cap S \subseteq Sound
  BY <1>1, <1>2
<1>4. AdmittedAtRoot(base) = Only(Under(0), S)
  BY DEF AdmittedAtRoot
<1> HIDE DEF S
<1>5. SoundSections(AdmittedAtRoot(base)) /\ Lists!ToSet(AdmittedAtRoot(base)) = Lists!ToSet(Under(0)) \cap S
  BY <1>2, <1>3, <1>4, AmongFacts
<1>6. QED
  BY <1>2, <1>5 DEF S

(* A document with a title has its titles at the top, and between the start *)
(* and the first of them what is no title.                                  *)
LEMMA TitlesFacts ==
    ASSUME Typed, schema.shape = "titled", HasTitle
    PROVE  /\ SoundSections(Titles) /\ SoundSections(Strays)
           /\ \A g : g \in Lists!ToSet(Titles) <=> g \in Heading /\ level[g] = 1
           /\ \A g \in Lists!ToSet(Strays) : g \in Heading /\ Parent(g) = 0 /\ Admits(RootLevel, g) /\ level[g] # 1
           /\ RootLevel = 0 /\ Len(Titles) # 0
<1> DEFINE T == {h \in Heading : level[h] = 1}  S == {h \in Heading : level[h] # 1}
<1>1. RootLevel = 0
  BY DEF RootLevel
<1>2. Under(0) \in Seq(Heading) /\ Distinct(Under(0)) /\ Lists!ToSet(Under(0)) = {g \in Heading : Parent(g) = 0}
  BY UnderFacts
<1>3. T \subseteq Lists!ToSet(Under(0)) /\ T \subseteq Sound
  BY <1>1, <1>2, ParentFacts DEF Sound, Skips
<1>4. Titles = Only(Under(0), T)
  BY DEF Titles
<1>5. /\ SoundSections(AdmittedAtRoot(0))
      /\ \A g : g \in Lists!ToSet(AdmittedAtRoot(0)) <=> g \in Heading /\ Parent(g) = 0 /\ Admits(0, g)
  BY <1>1, AdmittedAtRootFacts
<1>6. AdmittedAtRoot(0) \in Seq(Heading) /\ Distinct(AdmittedAtRoot(0)) /\ Lists!ToSet(AdmittedAtRoot(0)) \subseteq Sound
  <2>1. AdmittedAtRoot(0) \in Seq(Sound) /\ Sound \subseteq Heading
    BY <1>5 DEF SoundSections, Sound
  <2>2. Lists!ToSet(AdmittedAtRoot(0)) \subseteq Sound
    BY <2>1, SeqIsSeq
  <2>3. QED
    BY <1>5, <2>1, <2>2, SeqOfSet DEF SoundSections
<1>7. Strays = Only(AdmittedAtRoot(0), S)
  BY DEF Strays
<1>8. T # {}
  BY DEF HasTitle
<1>9. \A g : g \in T <=> g \in Heading /\ level[g] = 1
  OBVIOUS
<1>10. \A g : g \in S => g \in Heading /\ level[g] # 1
  OBVIOUS
<1> HIDE DEF S, T
<1>11. SoundSections(Titles) /\ Lists!ToSet(Titles) = T
  <2>1. Lists!ToSet(Under(0)) \cap T = T /\ T \subseteq Sound
    BY <1>3
  <2>2. QED
    BY <1>2, <1>4, <2>1, AmongFacts
<1>12. SoundSections(Strays) /\ Lists!ToSet(Strays) = Lists!ToSet(AdmittedAtRoot(0)) \cap S
  BY <1>6, <1>7, AmongFacts
<1>13. Len(Titles) # 0
  <2>1. Titles \in Seq(Sound)
    BY <1>11 DEF SoundSections
  <2>2. PICK i \in DOMAIN Titles : TRUE
    BY <1>8, <1>11 DEF Lists!ToSet
  <2>3. QED
    BY <2>1, <2>2
<1>14. QED
  BY <1>1, <1>5, <1>9, <1>10, <1>11, <1>12, <1>13

(* What a step leaves behind has the shape of what it found.                *)
LEMMA ShapeStays ==
    ASSUME Typed, Shaped, UNCHANGED input, Growing, DOMAIN bound' = DOMAIN bound,
           NEW D, Extended(D), \A d \in D : Placed(d),
           NEW tasks, Continued(tasks), \A t \in Lists!ToSet(tasks) : FitsTask(t)',
           captured' \in [Heading -> {"unevaluated", "valid", "invalid"}],
           UNCHANGED outcome
    PROVE  Typed' /\ Shaped'
<1>1. Typed' /\ Heading' = Heading /\ \A d : Placed(d)' = Placed(d)
  BY InputStays
<1>2. \A t \in Lists!ToSet(agenda') : FitsTask(t)'
  <2>1. SUFFICES ASSUME NEW k \in DOMAIN agenda', NEW t, t = agenda'[k] PROVE FitsTask(t)'
    BY DEF Lists!ToSet
  <2>2. CASE k \in DOMAIN tasks /\ agenda'[k] = tasks[k]
    <3>1. t \in Lists!ToSet(tasks)
      BY <2>1, <2>2 DEF Lists!ToSet
    <3>2. QED
      BY <3>1
  <2>3. CASE Earlier(k, tasks) \in DOMAIN agenda /\ agenda'[k] = agenda[Earlier(k, tasks)]
    <3>1. t \in Lists!ToSet(agenda)
      BY <2>1, <2>3 DEF Lists!ToSet
    <3>2. FitsTask(t)
      BY <3>1 DEF Shaped
    <3>3. QED
      BY <3>2, FitsStays
  <2>4. QED
    BY <2>2, <2>3 DEF Continued
<1>3. \A p \in Lists!ToSet(pending') : FitsRecord(p)'
  <2>1. SUFFICES ASSUME NEW i \in DOMAIN pending', NEW p, p = pending'[i] PROVE FitsRecord(p)'
    BY DEF Lists!ToSet
  <2>2. i \in DOMAIN pending => p \in Lists!ToSet(pending)
    BY <2>1 DEF Extended, Lists!ToSet
  <2>3. p.hidden \in BOOLEAN /\ Placed(p.diagnostic)
    BY <2>1, <2>2 DEF Extended, Shaped, FitsRecord
  <2>4. QED
    BY <1>1, <2>3 DEF FitsRecord
<1>4. IsSeq(agenda)' /\ IsSeq(pending)'
  BY DEF Continued, Extended, IsSeq
<1>5. Lists!ToSet(agenda)' = Lists!ToSet(agenda') /\ Lists!ToSet(pending)' = Lists!ToSet(pending')
  BY DEF Lists!ToSet
<1>6. QED
  BY <1>1, <1>2, <1>3, <1>4, <1>5 DEF Shaped

(* What is listed or put in order are sound headings.                       *)
LEMMA ListedIsSound ==
    ASSUME Shaped, NEW k \in DOMAIN agenda, NEW h \in Listed(agenda[k])
    PROVE  h \in Sound /\ h \in Heading /\ agenda[k].do = "scope" /\ h \in Lists!ToSet(agenda[k].sections)
<1>1. agenda[k].do = "scope" /\ h \in Lists!ToSet(agenda[k].sections)
  BY DEF Listed
<1>2. agenda[k].sections \in Seq(Sound)
  BY <1>1 DEF Shaped, FitsTask, SoundSections, Lists!ToSet
<1>3. h \in Sound
  BY <1>1, <1>2, SeqIsSeq
<1>4. QED
  BY <1>1, <1>3 DEF Sound

(* and so are those whose order is to be judged.                            *)
LEMMA OrderedIsSound ==
    ASSUME Shaped, NEW k \in DOMAIN agenda, agenda[k].do = "order", NEW h \in Lists!ToSet(agenda[k].sections)
    PROVE  h \in Sound /\ h \in Heading
<1>1. agenda[k].sections \in Seq(Sound)
  BY DEF Shaped, FitsTask, SoundSections, Lists!ToSet
<1>2. h \in Sound
  BY <1>1, SeqIsSeq
<1>3. QED
  BY <1>2 DEF Sound

-----------------------------------------------------------------------------

(* The three judgements.                                                    *)
Judging == {<<what, "section">> : what \in {"not-allowed", "misplaced", "unexpected"}}
Judges(d, h) == d.at = <<h>> /\ d.id \in Judging

(* What is said of a heading is said for good; what joins it is what the    *)
(* step says.                                                               *)
LEMMA JudgementsGrow ==
    ASSUME NEW D, Extended(D), NEW h
    PROVE  /\ Judgements(h) \subseteq Judgements(h)'
           /\ \A i \in Judgements(h)' : \/ i \in Judgements(h)
                                        \/ /\ i \in DOMAIN pending' \ DOMAIN pending
                                           /\ pending'[i].diagnostic \in D
                                           /\ Judges(pending'[i].diagnostic, h)
           /\ (\A d \in D : ~Judges(d, h)) => Judgements(h)' = Judgements(h)
<1>1. Judgements(h) = {i \in DOMAIN pending : Judges(pending[i].diagnostic, h)}
  BY DEF Judgements, Judges, Judging
<1>2. Judgements(h)' = {i \in DOMAIN pending' : Judges(pending'[i].diagnostic, h)}
  BY DEF Judgements, Judges, Judging
<1>3. QED
  BY <1>1, <1>2 DEF Extended

(* The headings from this one on that are nested in it.                     *)
Branch(h) == {g \in Heading : h <= g /\ \A i \in h + 1 .. g : level[i] > level[h]}
Within(s, d) == d.at # <<>> /\ \E h \in Lists!ToSet(s) : d.at[1] \in Branch(h)

(* What is said of sections other than judgements, and of what is in them.  *)
OfSections == {<<what, "section">> : what \in {"missing", "too-few", "too-many", "invalid-value", "order-violation"}}
OfNodes(d) == d.id \in OfSections \/ d.id[2] \in {"block", "item"}
Lacks(d) == d.id \in {<<"missing", "section">>, <<"too-few", "section">>}

(* What a task, or a task that it leads to, will say, apart from judgements *)
(* and what queries read.                                                   *)
Says(t, d) ==
    \/ t.do = "frontmatter" /\ d.id[2] = "frontmatter" /\ d.by.node \in {"frontmatter", "frontmatter_schema"}
    \/ t.do = "captures" /\ d.id[2] = "frontmatter" /\ d.by.node = "frontmatter_capture"
    \/ t.do = "levels" /\ d.id = <<"skipped-level", "section">>
    \/ t.do = "root" /\ (OfNodes(d) \/ d.id[2] \in {"constraint", "title"})
    \/ t.do = "content" /\ d.id[2] \in {"block", "item"} /\ (d.at = t.absence \/ (d.at # <<>> /\ d.at[1] = t.of))
    \/ t.do = "items" /\ d.id[2] = "item" /\ d.at # <<>> /\ d.at[1] = t.of /\ d.at[2] = t.block
    \/ t.do = "capture" /\ d.id = <<"invalid-value", "section">> /\ d.at = <<t.of>>
    \/ t.do = "order" /\ d.id = <<"order-violation", "section">> /\ \E h \in Lists!ToSet(t.sections) : d.at = <<h>>
    \/ t.do = "scope" /\ ((Lacks(d) /\ d.at = t.parent) \/ (OfNodes(d) /\ Within(t.sections, d)))
    \/ t.do = "constraints" /\ d.id[2] = "constraint" /\ (d.at = t.parent \/ Within(t.current.sections, d))

(* The sections of a scope are in separate branches, its parent in none.    *)
Parted(s, parent) ==
    /\ \A g, h \in Lists!ToSet(s) : g # h => Branch(g) \cap Branch(h) = {}
    /\ \A h \in Lists!ToSet(s) : \A p \in Branch(h) : parent # <<p>>
Branching(t) ==
    /\ t.do = "scope" => Parted(t.sections, t.parent)
    /\ t.do = "constraints" => Parted(t.current.sections, t.parent)

(* What a query has read may be said again.                                 *)
IsRead(d) == d.id[2] = "frontmatter" /\ d.by.node = "read"

(* What is said is apart from what will be said, and every task has things  *)
(* of its own to say.                                                       *)
Unsaid == \A i \in DOMAIN pending, k \in DOMAIN agenda : ~Says(agenda[k], pending[i].diagnostic)
OwnWords == \A k, l \in DOMAIN agenda : \A d : Says(agenda[k], d) /\ Says(agenda[l], d) => k = l
Voicing ==
    /\ \A k \in DOMAIN agenda : Branching(agenda[k])
    /\ SaidOnce /\ Unsaid /\ OwnWords

(* No task says what queries read, or judges.                               *)
LEMMA NobodySays ==
    ASSUME NEW t, NEW d, IsRead(d) \/ d.id \in Judging
    PROVE  ~Says(t, d)
<1>1. CASE IsRead(d)
  <2>1. d.id[2] = "frontmatter" /\ d.by.node = "read"
    BY <1>1 DEF IsRead
  <2>2. d.id \notin OfSections /\ d.id # <<"skipped-level", "section">> /\ d.id # <<"invalid-value", "section">>
        /\ d.id # <<"order-violation", "section">>
    BY <2>1 DEF OfSections
  <2>3. ~Lacks(d) /\ ~OfNodes(d)
    BY <2>1, <2>2 DEF Lacks, OfNodes
  <2>4. QED
    BY <2>1, <2>2, <2>3 DEF Says
<1>2. CASE d.id \in Judging
  <2>1. PICK what \in {"not-allowed", "misplaced", "unexpected"} : d.id = <<what, "section">>
    BY <1>2 DEF Judging
  <2>2. d.id \notin OfSections /\ d.id # <<"skipped-level", "section">> /\ d.id # <<"invalid-value", "section">>
        /\ d.id # <<"order-violation", "section">> /\ d.id[2] = "section"
    BY <2>1 DEF OfSections
  <2>3. ~Lacks(d) /\ ~OfNodes(d)
    BY <2>1, <2>2 DEF Lacks, OfNodes
  <2>4. QED
    BY <2>2, <2>3 DEF Says
<1>3. QED
  BY <1>1, <1>2

(* The document stays, and with it what is said of it.                      *)
LEMMA SaysStays ==
    ASSUME UNCHANGED input
    PROVE  /\ \A t, d : Says(t, d)' <=> Says(t, d)
           /\ \A t : Branching(t)' <=> Branching(t)
<1>1. Heading' = Heading /\ level' = level
  BY InputStays DEF input
<1>2. \A h : Branch(h)' = Branch(h)
  BY <1>1 DEF Branch
<1>3. \A s, d : Within(s, d)' <=> Within(s, d)
  BY <1>2 DEF Within, Lists!ToSet
<1>4. \A d : (OfNodes(d)' <=> OfNodes(d)) /\ (Lacks(d)' <=> Lacks(d))
  BY DEF OfNodes, Lacks, OfSections
<1>5. \A s : Lists!ToSet(s)' = Lists!ToSet(s)
  BY DEF Lists!ToSet
<1>6. \A s, p : Parted(s, p)' <=> Parted(s, p)
  BY <1>2, <1>5 DEF Parted
<1>7. QED
  BY <1>3, <1>4, <1>5, <1>6 DEF Says, Branching

(* A task says what is its own when its turn comes, or leaves it to the     *)
(* tasks that it leads to, each of them a part of its own.                  *)
LEMMA VoicingStep ==
    ASSUME Voicing, Walking', UNCHANGED input, 1 \in DOMAIN agenda,
           NEW D, Extended(D),
           \A d \in D : IsRead(d) \/ (\E h \in Heading : Judges(d, h)) \/ Says(agenda[1], d),
           NEW tasks, Continued(tasks),
           \A k \in DOMAIN tasks : /\ Branching(tasks[k])
                                   /\ \A d : Says(tasks[k], d) => Says(agenda[1], d) /\ d \notin D,
           \A k, l \in DOMAIN tasks : \A d : Says(tasks[k], d) /\ Says(tasks[l], d) => k = l
    PROVE  Voicing'
<1> DEFINE e(k) == Earlier(k, tasks)
<1>1. \A t, d : Says(t, d)' <=> Says(t, d)
  BY SaysStays
<1>2. \A t : Branching(t)' <=> Branching(t)
  BY SaysStays
<1>3. \A k \in DOMAIN agenda' :
          \/ k \in DOMAIN tasks /\ agenda'[k] = tasks[k]
          \/ e(k) \in DOMAIN agenda /\ e(k) # 1 /\ agenda'[k] = agenda[e(k)]
  BY DEF Continued
<1>4. \A k, l \in DOMAIN agenda' : e(k) = e(l) => k = l
  BY DEF Continued
<1> HIDE DEF e
<1>5. \A k \in DOMAIN agenda' : Branching(agenda'[k])
  BY <1>3 DEF Voicing
<1>6. Heading' = Heading
  BY InputStays
<1>7. \A d, h, t : Judges(d, h) => ~Says(t, d)
  BY NobodySays DEF Judges
<1>8. \A d, t : IsRead(d) => ~Says(t, d)
  BY NobodySays
<1>9. OwnWords'
  <2>1. ASSUME NEW k \in DOMAIN agenda', NEW l \in DOMAIN agenda', NEW d, Says(agenda'[k], d), Says(agenda'[l], d)
        PROVE  k = l
    <3>1. \A m \in DOMAIN agenda, n \in DOMAIN agenda : Says(agenda[m], d) /\ Says(agenda[n], d) => m = n
      BY DEF Voicing, OwnWords
    <3>2. QED
      BY <1>3, <1>4, <2>1, <3>1
  <2>2. QED
    BY <1>1, <2>1 DEF OwnWords
<1>10. Unsaid'
  <2>1. ASSUME NEW i \in DOMAIN pending', NEW k \in DOMAIN agenda', Says(agenda'[k], pending'[i].diagnostic)
        PROVE  FALSE
    <3> DEFINE d == pending'[i].diagnostic
    <3>1. CASE i \in DOMAIN pending
      <4>1. d = pending[i].diagnostic
        BY <3>1 DEF Extended
      <4>2. \A l \in DOMAIN agenda : ~Says(agenda[l], d)
        BY <3>1, <4>1 DEF Voicing, Unsaid
      <4>3. QED
        BY <1>3, <2>1, <4>2
    <3>2. CASE i \notin DOMAIN pending
      <4>1. d \in D
        BY <3>2 DEF Extended
      <4>2. Says(agenda[1], d)
        BY <1>7, <1>8, <2>1, <4>1
      <4>3. \A l \in DOMAIN agenda : Says(agenda[l], d) => l = 1
        BY <4>2 DEF Voicing, OwnWords
      <4>4. QED
        BY <1>3, <2>1, <4>1, <4>3
    <3>3. QED
      BY <3>1, <3>2
  <2>2. QED
    BY <1>1, <2>1 DEF Unsaid
<1>11. SaidOnce'
  <2>1. ASSUME NEW i \in DOMAIN pending', NEW j \in DOMAIN pending', i # j,
               pending'[i].diagnostic = pending'[j].diagnostic, j \notin DOMAIN pending
        PROVE  pending'[i].diagnostic.by.node = "read"
    <3> DEFINE d == pending'[j].diagnostic
    <3>1. i \in DOMAIN pending /\ d = pending[i].diagnostic /\ d \in D
      BY <2>1 DEF Extended
    <3>2. ~Says(agenda[1], d)
      BY <3>1 DEF Voicing, Unsaid
    <3>3. ASSUME NEW h \in Heading, Judges(d, h) PROVE FALSE
      <4>1. d.at = <<h>> /\ d.id \in {<<what, "section">> : what \in {"not-allowed", "misplaced", "unexpected"}}
        BY <3>3 DEF Judges, Judging
      <4>2. i \in Judgements(h)' /\ j \in Judgements(h)'
        BY <2>1, <4>1 DEF Judgements
      <4>3. QED
        BY <1>6, <2>1, <4>2 DEF Walking, Apart
    <3>4. IsRead(d)
      BY <3>1, <3>2, <3>3
    <3>5. QED
      BY <2>1, <3>4 DEF IsRead
  <2>2. ASSUME NEW i \in DOMAIN pending', NEW j \in DOMAIN pending', i # j,
               pending'[i].diagnostic = pending'[j].diagnostic
        PROVE  pending'[i].diagnostic.by.node = "read"
    <3>1. CASE j \notin DOMAIN pending
      BY <2>1, <2>2, <3>1
    <3>2. CASE i \notin DOMAIN pending
      BY <2>1, <2>2, <3>2
    <3>3. CASE i \in DOMAIN pending /\ j \in DOMAIN pending
      BY <2>2, <3>3 DEF Extended, Voicing, SaidOnce
    <3>4. QED
      BY <3>1, <3>2, <3>3
  <2>3. QED
    BY <2>2 DEF SaidOnce
<1>12. QED
  BY <1>2, <1>5, <1>9, <1>10, <1>11 DEF Voicing

(* A branch holds its heading, no title but its own, and whoever is nested  *)
(* in it has a parent in it.                                                *)
LEMMA BranchFacts ==
    ASSUME Typed, NEW h \in Heading
    PROVE  /\ h \in Branch(h) /\ Branch(h) \subseteq Heading
           /\ \A g \in Branch(h) : g # h => h < g /\ level[g] > level[h] /\ Parent(g) \in Branch(h)
<1>1. /\ Heading \subseteq Nat \ {0} /\ \A g \in Heading : level[g] \in Nat \ {0}
      /\ Heading = 1 .. Len(level) /\ Len(level) \in Nat
  BY ParentFacts DEF Typed, Heading
<1>2. h \in Branch(h) /\ Branch(h) \subseteq Heading
  BY <1>1 DEF Branch
<1>3. ASSUME NEW g \in Branch(h), g # h
      PROVE  h < g /\ level[g] > level[h] /\ Parent(g) \in Branch(h)
  <2>1. g \in Heading /\ h <= g /\ \A i \in h + 1 .. g : level[i] > level[h]
    BY <1>3 DEF Branch
  <2>2. h < g /\ g \in h + 1 .. g /\ level[g] > level[h]
    BY <1>1, <1>3, <2>1
  <2>3. Parent(g) \in Heading /\ h <= Parent(g) /\ Parent(g) < g
    BY <2>1, <2>2, ParentFacts
  <2>4. \A i \in h + 1 .. Parent(g) : i \in h + 1 .. g
    <3>1. h \in Int /\ g \in Int /\ Parent(g) \in Int
      BY <1>1, <2>1, <2>3
    <3>2. QED
      BY <2>3, <3>1
  <2>5. QED
    BY <2>1, <2>2, <2>3, <2>4 DEF Branch
<1>4. QED
  BY <1>2, <1>3

(* Headings whose parents are not in each other's branch have none in       *)
(* common.                                                                  *)
LEMMA BranchesPart ==
    ASSUME Typed, NEW g \in Heading, NEW h \in Heading, g # h,
           Parent(g) \notin Branch(h), Parent(h) \notin Branch(g)
    PROVE  Branch(g) \cap Branch(h) = {}
<1>1. Heading \subseteq Nat \ {0}
  BY ParentFacts
<1>2. g \notin Branch(h) /\ h \notin Branch(g)
  BY BranchFacts
<1>3. ASSUME NEW a \in Heading, NEW b \in Heading, a < b, NEW p \in Branch(a), p \in Branch(b)
      PROVE  b \in Branch(a)
  <2>1. b <= p /\ p \in Nat /\ \A i \in a + 1 .. p : level[i] > level[a]
    BY <1>1, <1>3 DEF Branch
  <2>2. \A i \in a + 1 .. b : i \in a + 1 .. p
    BY <1>1, <2>1
  <2>3. QED
    BY <1>1, <1>3, <2>1, <2>2 DEF Branch
<1>4. g < h \/ h < g
  BY <1>1
<1>5. QED
  BY <1>2, <1>3, <1>4

(* The headings under one are in its branch, and apart from each other.     *)
LEMMA ChildrenPart ==
    ASSUME Typed, NEW h \in Sound
    PROVE  /\ \A c \in Lists!ToSet(ChildSections(h)) : /\ c \in Heading /\ h \notin Branch(c)
                                                       /\ Branch(c) \subseteq Branch(h)
           /\ Parted(ChildSections(h), <<h>>)
<1>1. h \in Heading
  BY DEF Sound
<1>2. \A c \in Lists!ToSet(ChildSections(h)) : c \in Heading /\ Parent(c) = h /\ Admits(level[h], c)
  BY ChildSectionsFacts
<1>3. Heading \subseteq Nat \ {0} /\ level \in Seq(Nat \ {0}) /\ \A g \in Heading : level[g] \in Nat \ {0}
  BY <1>1, ParentFacts DEF Typed
<1>4. ASSUME NEW c \in Lists!ToSet(ChildSections(h)) PROVE h \notin Branch(c) /\ Branch(c) \subseteq Branch(h)
  <2>1. c \in Heading /\ Parent(c) = h /\ h < c /\ h # 0 /\ level[h] < level[c]
    BY <1>1, <1>2, <1>3, ParentFacts
  <2>2. h \notin Branch(c)
    BY <1>3, <2>1, <1>1 DEF Branch
  <2>3. c \in Branch(h)
    <3>1. \A k \in Heading : k < c /\ level[k] < level[c] => k <= h
      BY <2>1, ParentFacts
    <3>2. ASSUME NEW i \in h + 1 .. c PROVE level[i] > level[h]
      <4>1. i \in Heading /\ level[i] \in Nat
        BY <1>1, <1>3, <2>1 DEF Heading
      <4>2. i = c \/ level[i] >= level[c]
        BY <1>1, <1>3, <2>1, <3>1, <4>1
      <4>3. QED
        BY <1>1, <1>3, <2>1, <4>1, <4>2
    <3>3. QED
      BY <1>1, <1>3, <2>1, <3>2 DEF Branch
  <2>4. ASSUME NEW g \in Branch(c) PROVE g \in Branch(h)
    <3>1. g \in Heading /\ c <= g /\ \A i \in c + 1 .. g : level[i] > level[c]
      BY <2>4 DEF Branch
    <3>2. \A i \in h + 1 .. c : level[i] > level[h]
      BY <2>3 DEF Branch
    <3>3. ASSUME NEW i \in h + 1 .. g PROVE level[i] > level[h]
      <4>1. i \in Heading /\ level[i] \in Nat
        BY <1>1, <1>3, <2>1, <3>1 DEF Heading
      <4>2. i \in h + 1 .. c \/ i \in c + 1 .. g
        BY <1>1, <1>3, <2>1, <3>1
      <4>3. QED
        BY <1>1, <1>3, <2>1, <3>1, <3>2, <4>1, <4>2
    <3>4. QED
      BY <1>1, <1>3, <2>1, <3>1, <3>3 DEF Branch
  <2>5. QED
    BY <2>2, <2>4
<1>5. ASSUME NEW b \in Lists!ToSet(ChildSections(h)), NEW c \in Lists!ToSet(ChildSections(h)), b # c
      PROVE  Branch(b) \cap Branch(c) = {}
  BY <1>2, <1>4, <1>5, BranchesPart
<1>6. \A c \in Lists!ToSet(ChildSections(h)) : \A p \in Branch(c) : <<h>> # <<p>>
  BY <1>4
<1>7. QED
  BY <1>2, <1>4, <1>5, <1>6 DEF Parted

(* What is within the children of a heading is in its branch, below it.     *)
LEMMA WithinChildren ==
    ASSUME Typed, NEW h \in Sound, NEW d, Within(ChildSections(h), d)
    PROVE  d.at # <<>> /\ d.at[1] \in Branch(h) /\ d.at[1] # h
<1>1. PICK c \in Lists!ToSet(ChildSections(h)) : d.at # <<>> /\ d.at[1] \in Branch(c)
  BY DEF Within
<1>2. h \notin Branch(c) /\ Branch(c) \subseteq Branch(h)
  BY ChildrenPart
<1>3. QED
  BY <1>1, <1>2

(* Such a step may leave no task.                                           *)
LEMMA LeafStep ==
    ASSUME Voicing, Walking', UNCHANGED input, IsSeq(agenda), agenda # <<>>, Continue(<<>>),
           NEW D, Extended(D),
           \A d \in D : IsRead(d) \/ (\E h \in Heading : Judges(d, h)) \/ Says(agenda[1], d)
    PROVE  Voicing'
<1>1. 1 \in DOMAIN agenda
  BY SeqFacts
<1>2. <<>> \in Seq({})
  OBVIOUS
<1>3. Continued(<<>>)
  BY <1>2, ContinueMoves
<1>4. QED
  BY <1>1, <1>3, VoicingStep

(* A step whose tasks list no heading, and that judges none and binds none. *)
Idle(tasks) == \A k \in DOMAIN tasks : tasks[k].do \in {"content", "items", "constraints"}

(* What an order violation says of the headings next to it.                 *)
Vindicated(h) ==
    /\ bound[h] # None /\ Alone(h)
    /\ \A g \in Heading : Parent(g) = Parent(h) /\ bound[g] = bound[h] => text[g].value # Unparsable

(* Such a step keeps the invariant: content, items, constraints, captures   *)
(* and orders.                                                              *)
LEMMA IdleStep ==
    ASSUME Walking, Opened, UNCHANGED <<input, bound, outcome>>,
           NEW D, Extended(D), \A d \in D : Placed(d) /\ d.id \notin Judging,
           \A d \in D, h \in Heading : OrderViolation(d, h) => Vindicated(h),
           NEW tasks, Continued(tasks), Idle(tasks), \A t \in Lists!ToSet(tasks) : FitsTask(t)',
           captured' \in [Heading -> {"unevaluated", "valid", "invalid"}], EvaluatedOfBound'
    PROVE  Walking'
<1>1. /\ Heading' = Heading /\ \A h : Parent(h)' = Parent(h)
      /\ bound' = bound /\ level' = level /\ schema' = schema
  BY InputStays DEF input
<1>2. \A h : Judgements(h)' = Judgements(h)
  BY JudgementsGrow DEF Judges
<1>3. \A h \in Heading : Reached(h) => Reached(h)'
  BY <1>1, ReachedStays DEF Walking, Growing
<1> DEFINE e(k) == Earlier(k, tasks)
<1>4. \A k \in DOMAIN agenda' : agenda'[k].do \notin {"content", "items", "constraints"} =>
                                  e(k) \in DOMAIN agenda /\ agenda'[k] = agenda[e(k)]
  BY DEF Continued, Idle
<1>5. \A k, l \in DOMAIN agenda' : e(k) = e(l) => k = l
  BY DEF Continued
<1> HIDE DEF e
<1>6. \A t : Listed(t)' = Listed(t)
  BY DEF Listed
<1>7. \A k \in DOMAIN agenda' : Listed(agenda'[k]) # {} =>
                                  e(k) \in DOMAIN agenda /\ agenda'[k] = agenda[e(k)]
  BY <1>4 DEF Listed
<1>8. Opened'
  <2>1. \A k \in DOMAIN agenda' : agenda'[k].do \notin Opening
    BY <1>4 DEF Opened, Opening
  <2>2. QED
    BY <2>1 DEF Opened, Opening
<1>9. Refusing'
  BY <1>1, <1>2, <1>4, <1>5 DEF Refusing, Walking
<1>10. ListedOnce'
  <2>1. ASSUME NEW k \in DOMAIN agenda', NEW h \in Listed(agenda'[k])
        PROVE  /\ Reached(h)' /\ Judgements(h)' = {} /\ (schema.shape = "outline" \/ level[h] # 1)
               /\ \A g \in Heading : Parent(g) = Parent(h) => bound[g] = None
    <3>1. e(k) \in DOMAIN agenda /\ h \in Listed(agenda[e(k)])
      BY <1>7, <2>1
    <3>2. h \in Heading
      BY <3>1, ListedIsSound DEF Walking
    <3>3. QED
      BY <1>2, <1>3, <3>1, <3>2 DEF ListedOnce, Walking
  <2>2. ASSUME NEW k \in DOMAIN agenda', NEW l \in DOMAIN agenda',
               NEW g \in Listed(agenda'[k]), NEW h \in Listed(agenda'[l]), Parent(g) = Parent(h)
        PROVE  k = l
    <3>1. /\ e(k) \in DOMAIN agenda /\ g \in Listed(agenda[e(k)])
          /\ e(l) \in DOMAIN agenda /\ h \in Listed(agenda[e(l)])
      BY <1>7, <2>2
    <3>2. e(k) = e(l)
      BY <2>2, <3>1 DEF ListedOnce, Walking
    <3>3. QED
      BY <1>5, <3>2
  <2>3. QED
    BY <1>1, <1>6, <2>1, <2>2 DEF ListedOnce
<1>11. Apart'
  BY <1>1, <1>2, <1>3 DEF Apart, Walking
<1>12. \A h : Alone(h) => Alone(h)'
  BY <1>1, <1>6, <1>7 DEF Alone
<1>13. OrderedAlone'
  <2>1. ASSUME NEW k \in DOMAIN agenda', agenda'[k].do = "order", NEW h \in Lists!ToSet(agenda'[k].sections)
        PROVE  /\ Reached(h)' /\ Alone(h)'
               /\ \A g \in Heading : Parent(g) = Parent(h) /\ bound[g] # None => g \in Lists!ToSet(agenda'[k].sections)
    <3>1. e(k) \in DOMAIN agenda /\ agenda[e(k)].do = "order" /\ agenda'[k] = agenda[e(k)]
      BY <1>4, <2>1
    <3>2. h \in Lists!ToSet(agenda[e(k)].sections)
      BY <2>1, <3>1
    <3>3. h \in Heading
      BY <3>1, <3>2, OrderedIsSound DEF Walking
    <3>4. QED
      BY <1>3, <1>12, <3>1, <3>2, <3>3 DEF OrderedAlone, Walking
  <2>2. \A s : Lists!ToSet(s)' = Lists!ToSet(s)
    BY DEF Lists!ToSet
  <2>3. QED
    BY <1>1, <2>1, <2>2 DEF OrderedAlone
<1>14. ViolatedAlone'
  <2>1. ASSUME NEW i \in DOMAIN pending', NEW h \in Heading, OrderViolation(pending'[i].diagnostic, h)
        PROVE  Vindicated(h)
    <3>1. CASE i \in DOMAIN pending
      BY <2>1, <3>1 DEF Extended, ViolatedAlone, Walking, Vindicated
    <3>2. CASE i \notin DOMAIN pending
      BY <2>1, <3>2 DEF Extended
    <3>3. QED
      BY <3>1, <3>2
  <2>2. text' = text
    BY DEF input
  <2>3. ASSUME NEW i \in DOMAIN pending', NEW h \in Heading', OrderViolation(pending'[i].diagnostic, h)
        PROVE  /\ bound'[h] # None /\ Alone(h)'
               /\ \A g \in Heading' : Parent(g)' = Parent(h)' /\ bound'[g] = bound'[h] => text'[g].value # Unparsable
    BY <1>1, <1>12, <2>1, <2>2, <2>3 DEF Vindicated
  <2>4. \A d, h : OrderViolation(d, h)' = OrderViolation(d, h)
    BY DEF OrderViolation
  <2>5. QED
    BY <2>3, <2>4 DEF ViolatedAlone
<1>15. Typed' /\ Shaped'
  BY ShapeStays DEF Walking, Growing
<1>16. QED
  BY <1>8, <1>9, <1>10, <1>11, <1>13, <1>14, <1>15 DEF Walking

(* What the walk turns to next.                                             *)
LEMMA NowFits ==
    ASSUME Walking, NEW do, Doing(do)
    PROVE  /\ agenda # <<>> /\ IsSeq(agenda) /\ IsSeq(pending)
           /\ 1 \in DOMAIN agenda /\ Now = agenda[1] /\ Now.do = do /\ FitsTask(Now)
           /\ do \notin Opening => Opened
<1>1. IsSeq(agenda) /\ IsSeq(pending) /\ agenda # <<>> /\ Now.do = do
  BY DEF Walking, Shaped, Doing, Now
<1>2. agenda \in Seq(Lists!ToSet(agenda)) /\ Len(agenda) \in Nat /\ DOMAIN agenda = 1 .. Len(agenda)
  BY <1>1, SeqFacts
<1>3. 1 \in DOMAIN agenda /\ Now = agenda[1]
  BY <1>1, <1>2 DEF Now
<1>4. FitsTask(Now)
  BY <1>3 DEF Walking, Shaped, Lists!ToSet
<1>5. do \notin Opening => Opened
  <2>1. Unopened => agenda[1].do \in Opening
    BY DEF Unopened, Opening, Task
  <2>2. QED
    BY <1>1, <1>3, <2>1 DEF Walking
<1>6. QED
  BY <1>1, <1>3, <1>4, <1>5

(* Anchors are at sound headings, and so are the places derived from them.  *)
LEMMA AnchorsArePlaced ==
    /\ \A d : d.at \in Anchor => Placed(d)
    /\ \A d, a, i : d.at = <<a, i>> /\ a \in {0} \union Sound => Placed(d)
    /\ \A d, a, i, k : d.at = Append(<<a, i>>, k) /\ a \in {0} \union Sound => Placed(d)
    /\ \A h \in Sound : <<h>> \in Anchor
<1>1. ASSUME NEW d, d.at \in Anchor PROVE Placed(d)
  <2>1. PICK h : d.at = <<>> \/ (h \in Sound /\ d.at = <<h>>)
    BY <1>1 DEF Anchor
  <2>2. QED
    BY <2>1 DEF Placed
<1>2. ASSUME NEW d, NEW a, NEW i, d.at = <<a, i>>, a \in {0} \union Sound PROVE Placed(d)
  BY <1>2 DEF Placed
<1>3. ASSUME NEW d, NEW a, NEW i, NEW k, d.at = Append(<<a, i>>, k), a \in {0} \union Sound PROVE Placed(d)
  <2> DEFINE s == <<a, i>>
  <2>1. s \in Seq({a, i}) /\ Len(s) = 2 /\ s[1] = a
    OBVIOUS
  <2> HIDE DEF s
  <2>2. s \in Seq({a, i, k})
    BY <2>1
  <2>3. Append(s, k) \in Seq({a, i, k}) /\ Append(s, k) # <<>> /\ Append(s, k)[1] = a
    BY <2>1, <2>2
  <2>4. Head(Append(s, k)) = a
    BY <2>3
  <2>5. QED
    BY <1>3, <2>4 DEF Placed, s
<1>4. QED
  BY <1>1, <1>2, <1>3 DEF Anchor

(* No block or item is a heading.                                           *)
LEMMA OtherKinds ==
    \A d, what, kind : d.id = <<what, kind>> /\ kind # "section" =>
        d.id \notin Judging /\ \A h : ~OrderViolation(d, h)
BY DEF Judging, OrderViolation

(* The numbers up to n that are in a set.                                   *)
LEMMA NumbersFacts ==
    ASSUME NEW n \in Nat, NEW S
    PROVE  /\ Only([i \in 1 .. n |-> i], S) \in Seq(1 .. n) /\ Distinct(Only([i \in 1 .. n |-> i], S))
           /\ Lists!ToSet(Only([i \in 1 .. n |-> i], S)) = (1 .. n) \cap S
<1> DEFINE s == [i \in 1 .. n |-> i]
<1>1. s \in Seq(1 .. n) /\ Distinct(s) /\ Lists!ToSet(s) = 1 .. n
  BY DEF Distinct, Lists!ToSet
<1> HIDE DEF s
<1>2. Only(s, S) \in Seq(1 .. n) /\ Distinct(Only(s, S)) /\ Lists!ToSet(Only(s, S)) = (1 .. n) \cap S
  BY <1>1, OnlyFacts
<1>3. QED
  BY <1>2 DEF s

(* The blocks of a heading are checked against its content rules.           *)
LEMMA ContentKeeps ==
    ASSUME Walking, VisitContent
    PROVE  Walking' /\ (Voicing => Voicing')
<1> DEFINE blocks   == preamble[Now.of]
           n        == Len(blocks)
           names    == [i \in 1 .. n |-> blocks[i].name]
           anchors  == [i \in 1 .. n |-> <<Now.of, i>>]
           assigned == AssignInOrder(Now.rules, names)
           wanted   == {i \in 1 .. n : assigned[i] # None /\ blocks[i].items # None /\ Now.rules[assigned[i]].items # None}
           lists    == Only([i \in 1 .. n |-> i], wanted)
           over     == LeftOver("block", Now.rules, names, assigned, anchors, By("rule", Now.path))
           short    == CardinalityOf("block", Now.rules, assigned, anchors, Now.absence, "content", Now.path)
           tasks    == [i \in 1 .. Len(lists) |->
                          ItemsTask(Now.of, lists[i], Now.rules[assigned[lists[i]]].items,
                                    Append(Now.path, assigned[lists[i]]))]
<1>1. /\ FitsTask(Now) /\ Now.do = "content" /\ Opened /\ Now = agenda[1] /\ 1 \in DOMAIN agenda
      /\ IsSeq(agenda) /\ IsSeq(pending) /\ agenda # <<>>
  <2>1. Doing("content") /\ "content" \notin Opening
    BY DEF VisitContent, Opening
  <2>2. QED
    BY <2>1, NowFits
<1>2. /\ Now.of \in {0} \union Sound /\ Now.rules \in Contents \union {None}
      /\ Now.path \in Seq(Nat) /\ Now.absence \in Anchor
  BY <1>1 DEF FitsTask
<1>3. UNCHANGED <<input, bound, captured, values, outcome>>
  BY DEF VisitContent
<1>4. captured' \in [Heading -> {"unevaluated", "valid", "invalid"}] /\ EvaluatedOfBound'
  <2>1. Heading' = Heading /\ text' = text
    BY <1>3, InputStays DEF input
  <2>2. QED
    BY <1>3, <2>1 DEF Walking, Shaped, EvaluatedOfBound
<1>5. CASE Now.rules = None
  <2>1. Continue(<<>>) /\ UNCHANGED pending
    BY <1>5 DEF VisitContent
  <2>2. Extended({}) /\ Continued(<<>>)
    <3>1. <<>> \in Seq({})
      OBVIOUS
    <3>2. QED
      BY <1>1, <2>1, <3>1, SilenceExtends, ContinueMoves
  <2>3. Idle(<<>>) /\ \A t \in Lists!ToSet(<<>>) : FitsTask(t)'
    BY DEF Idle, Lists!ToSet
  <2>4. Walking'
    BY <1>1, <1>3, <1>4, <2>2, <2>3, IdleStep
  <2>5. Voicing => Voicing'
    BY <1>1, <1>3, <2>1, <2>2, <2>4, LeafStep
  <2>6. QED
    BY <2>4, <2>5
<1>6. CASE Now.rules # None
  <2>1. Emit(over \union short) /\ Continue(tasks)
    BY <1>6 DEF VisitContent
  <2>2. Now.rules \in Contents /\ IsSeq(Now.rules)
        /\ \A c \in DOMAIN Now.rules : Now.rules[c].items \in Contents \union {None}
    BY <1>2, <1>6, GrammarsNest
  <2>3. /\ IsSeq(blocks) /\ n \in Nat /\ DOMAIN blocks = 1 .. n
        /\ \A i \in DOMAIN blocks : blocks[i].items = None \/ IsSeq(blocks[i].items)
    <3>1. Now.of \in 0 .. Len(level)
      BY <1>2 DEF Sound, Heading, Walking, Typed
    <3>2. IsSeq(blocks) /\ \A i \in DOMAIN blocks : blocks[i].items = None \/ IsSeq(blocks[i].items)
      BY <3>1 DEF Walking, Typed
    <3> HIDE DEF blocks
    <3>3. QED
      BY <3>2, SeqFacts
  <2> HIDE DEF blocks
  <2>4. Len(names) = n
    BY <2>3
  <2> HIDE DEF names, n
  <2>5. Assigns(assigned, Now.rules, n)
    BY <2>2, <2>3, <2>4, AssignInOrderFacts
  <2>6. /\ DOMAIN assigned = 1 .. n
        /\ \A i \in 1 .. n : assigned[i] = None \/ assigned[i] \in DOMAIN Now.rules
    BY <2>2, <2>5, SeqFacts DEF Assigns, RuleOf
  <2>7. \A i \in 1 .. n : anchors[i] = <<Now.of, i>>
    OBVIOUS
  <2> HIDE DEF assigned, anchors
  <2>8. /\ IsFiniteSet(over) /\ \A d \in over : \E i \in 1 .. n :
                                  d.at = anchors[i] /\ d.id \in {<<"unexpected", "block">>, <<"misplaced", "block">>}
    <3>1. IsFiniteSet(over)
      BY <2>3, <2>6, LeftOverFacts
    <3>2. \A d \in over :
             \E i \in 1 .. n : /\ assigned[i] = None /\ d.at = anchors[i]
                               /\ d.id \in {<<"unexpected", "block">>, <<"misplaced", "block">>}
      BY <2>3, <2>6, LeftOverFacts
    <3>3. QED
      BY <3>1, <3>2
  <2>9. /\ IsFiniteSet(short)
        /\ \A d \in short : /\ d.at = Now.absence \/ \E i \in 1 .. n : d.at = anchors[i]
                            /\ d.id \in {<<"missing", "block">>, <<"too-few", "block">>, <<"too-many", "block">>}
    <3>1. IsFiniteSet(short) /\ \A d \in short : OfCount(d, "block", Now.absence, anchors, n)
      BY <2>2, <2>3, <2>6, CardinalityOfFacts
    <3> HIDE DEF short
    <3>2. QED
      BY <3>1 DEF OfCount
  <2> HIDE DEF over, short
  <2>10. Extended(over \union short)
    BY <1>1, <2>1, <2>8, <2>9, EmitExtends, FS_Union
  <2>11. \A d \in over \union short : /\ Placed(d) /\ d.id \notin Judging
                                      /\ \A h \in Heading : OrderViolation(d, h) => Vindicated(h)
    <3>1. SUFFICES ASSUME NEW d \in over \union short
                   PROVE  Placed(d) /\ d.id \notin Judging /\ \A h \in Heading : OrderViolation(d, h) => Vindicated(h)
      OBVIOUS
    <3>2. Placed(d)
      BY <1>2, <2>7, <2>8, <2>9, AnchorsArePlaced
    <3>3. PICK what : d.id = <<what, "block">>
      BY <2>8, <2>9
    <3>4. QED
      BY <3>2, <3>3, OtherKinds
  <2>12. lists \in Seq(1 .. n) /\ Lists!ToSet(lists) = (1 .. n) \cap wanted /\ Distinct(lists)
    BY <2>3, NumbersFacts
  <2>13. Len(lists) \in Nat /\ \A k \in 1 .. Len(lists) : lists[k] \in wanted /\ lists[k] \in 1 .. n
    <3>1. \A k \in DOMAIN lists : lists[k] \in Lists!ToSet(lists)
      BY DEF Lists!ToSet
    <3>2. Len(lists) \in Nat /\ DOMAIN lists = 1 .. Len(lists)
      BY <2>12
    <3>3. QED
      BY <2>12, <3>1, <3>2
  <2> HIDE DEF lists
  <2>14. \A t \in Lists!ToSet(tasks) : t.do = "items" /\ FitsTask(t)
    <3>1. SUFFICES ASSUME NEW k \in 1 .. Len(lists), NEW t, t = tasks[k] PROVE t.do = "items" /\ FitsTask(t)
      BY DEF Lists!ToSet
    <3> DEFINE i == lists[k]
    <3>2. i \in 1 .. n /\ assigned[i] # None /\ blocks[i].items # None /\ Now.rules[assigned[i]].items # None
      BY <2>13
    <3>3. assigned[i] \in DOMAIN Now.rules /\ assigned[i] \in Nat
      BY <2>2, <2>6, <3>2, SeqFacts
    <3>4. t = ItemsTask(Now.of, i, Now.rules[assigned[i]].items, Append(Now.path, assigned[i]))
      BY <3>1
    <3>5. Now.rules[assigned[i]].items \in Contents /\ Append(Now.path, assigned[i]) \in Seq(Nat)
      BY <1>2, <2>2, <3>2, <3>3
    <3>6. i \in DOMAIN preamble[Now.of] /\ IsSeq(preamble[Now.of][i].items)
      BY <2>3, <3>2 DEF blocks
    <3> HIDE DEF i
    <3>7. t.do = "items" /\ t.of = Now.of /\ t.block = i /\ t.rules = Now.rules[assigned[i]].items
          /\ t.path = Append(Now.path, assigned[i])
      BY <3>4 DEF ItemsTask
    <3>8. FitsItems(t)
      BY <1>2, <3>5, <3>6, <3>7 DEF FitsItems
    <3>9. QED
      BY <3>7, <3>8 DEF FitsTask
  <2>15. tasks \in Seq(Lists!ToSet(tasks))
    BY <2>13 DEF Lists!ToSet
  <2>16. /\ DOMAIN tasks = DOMAIN lists
         /\ \A k \in DOMAIN tasks : tasks[k].do = "items" /\ tasks[k].of = Now.of /\ tasks[k].block = lists[k]
    BY <2>12 DEF ItemsTask
  <2> HIDE DEF tasks
  <2>17. Continued(tasks)
    BY <1>1, <2>1, <2>15, ContinueMoves
  <2>18. Idle(tasks) /\ \A t \in Lists!ToSet(tasks) : FitsTask(t)'
    <3>1. \A t \in Lists!ToSet(tasks) : FitsTask(t)'
      BY <1>3, <2>14, FitsStays DEF Growing
    <3>2. Idle(tasks)
      BY <2>14 DEF Idle, Lists!ToSet
    <3>3. QED
      BY <3>1, <3>2
  <2>19. Walking'
    BY <1>1, <1>3, <1>4, <2>10, <2>11, <2>17, <2>18, IdleStep
  <2>20. \A d \in over \union short : d.id[2] = "block" /\ Says(Now, d)
    <3>1. SUFFICES ASSUME NEW d \in over \union short PROVE d.id[2] = "block" /\ Says(Now, d)
      OBVIOUS
    <3>2. d.id[2] = "block"
      BY <2>8, <2>9
    <3>3. d.at = Now.absence \/ \E i \in 1 .. n : d.at = <<Now.of, i>>
      BY <2>7, <2>8, <2>9
    <3>4. d.at = Now.absence \/ (d.at # <<>> /\ d.at[1] = Now.of)
      BY <3>3
    <3>5. QED
      BY <1>1, <3>2, <3>4 DEF Says
  <2>21. \A k \in DOMAIN tasks : \A d : Says(tasks[k], d) =>
            d.id[2] = "item" /\ d.at # <<>> /\ d.at[1] = Now.of /\ d.at[2] = lists[k]
    BY <2>16 DEF Says
  <2>22. \A k \in DOMAIN tasks : /\ Branching(tasks[k])
                                 /\ \A d : Says(tasks[k], d) => Says(agenda[1], d) /\ d \notin over \union short
    <3>1. \A d : d.id[2] = "item" /\ d.at # <<>> /\ d.at[1] = Now.of => Says(Now, d)
      BY <1>1 DEF Says
    <3>2. \A k \in DOMAIN tasks : Branching(tasks[k])
      BY <2>16 DEF Branching
    <3>3. \A d : d.id[2] = "item" => d \notin over \union short
      BY <2>20
    <3>4. QED
      BY <1>1, <2>21, <3>1, <3>2, <3>3
  <2>23. \A k, l \in DOMAIN tasks : \A d : Says(tasks[k], d) /\ Says(tasks[l], d) => k = l
    BY <2>12, <2>16, <2>21 DEF Distinct
  <2>24. Voicing => Voicing'
    BY <1>1, <1>3, <2>10, <2>17, <2>19, <2>20, <2>22, <2>23, VoicingStep
  <2>25. QED
    BY <2>19, <2>24
<1>7. QED
  BY <1>5, <1>6

(* Captures stay as they are.                                               *)
LEMMA EvaluatedStays ==
    ASSUME Walking, UNCHANGED <<input, bound, captured>>
    PROVE  captured' \in [Heading -> {"unevaluated", "valid", "invalid"}] /\ EvaluatedOfBound'
<1>1. Heading' = Heading /\ text' = text
  BY InputStays DEF input
<1>2. QED
  BY <1>1 DEF Walking, Shaped, EvaluatedOfBound

(* A step may leave no task.                                                *)
LEMMA NoTasks ==
    ASSUME IsSeq(agenda), agenda # <<>>, Continue(<<>>)
    PROVE  Continued(<<>>) /\ Idle(<<>>) /\ \A t \in Lists!ToSet(<<>>) : FitsTask(t)'
<1>1. <<>> \in Seq({})
  OBVIOUS
<1>2. Continued(<<>>)
  BY <1>1, ContinueMoves
<1>3. QED
  BY <1>2 DEF Idle, Lists!ToSet

(* What else is said of a heading is no judgement.                          *)
LEMMA OtherWords ==
    \A d, what : d.id = <<what, "section">> =>
        /\ what \notin {"not-allowed", "misplaced", "unexpected"} => d.id \notin Judging
        /\ what # "order-violation" => \A h : ~OrderViolation(d, h)
BY DEF Judging, OrderViolation

(* The items of a list are checked.                                         *)
LEMMA ItemsKeeps ==
    ASSUME Walking, VisitItems
    PROVE  Walking' /\ (Voicing => Voicing')
<1> DEFINE names    == preamble[Now.of][Now.block].items
           n        == Len(names)
           list     == <<Now.of, Now.block>>
           anchors  == [i \in 1 .. n |-> Append(list, i)]
           assigned == AssignInOrder(Now.rules, names)
           over     == LeftOver("item", Now.rules, names, assigned, anchors, By("content", Now.path))
           short    == CardinalityOf("item", Now.rules, assigned, anchors, list, "item", Now.path)
<1>1. /\ FitsTask(Now) /\ Now.do = "items" /\ Opened /\ Now = agenda[1]
      /\ IsSeq(agenda) /\ IsSeq(pending) /\ agenda # <<>>
  <2>1. Doing("items") /\ "items" \notin Opening
    BY DEF VisitItems, Opening
  <2>2. QED
    BY <2>1, NowFits
<1>2. Now.of \in {0} \union Sound /\ Now.rules \in Contents /\ IsSeq(names)
  BY <1>1 DEF FitsTask, FitsItems
<1>3. UNCHANGED <<input, bound, captured, values, outcome>> /\ Emit(over \union short) /\ Continue(<<>>)
  BY DEF VisitItems
<1>4. IsSeq(Now.rules)
  BY <1>2, GrammarsNest
<1> HIDE DEF names
<1>5. n \in Nat
  BY <1>2, SeqFacts
<1>6. DOMAIN assigned = 1 .. n
  BY <1>4, <1>5, AssignInOrderFacts DEF Assigns
<1>7. \A i \in 1 .. n : anchors[i] = Append(list, i)
  OBVIOUS
<1> HIDE DEF assigned, anchors, list, n
<1>8. /\ IsFiniteSet(over)
      /\ \A d \in over : \E i \in 1 .. n :
            /\ assigned[i] = None /\ d.at = anchors[i] /\ d.id \in {<<"unexpected", "item">>, <<"misplaced", "item">>}
  BY <1>5, <1>6, LeftOverFacts
<1>9. /\ IsFiniteSet(short)
      /\ \A d \in short : /\ d.at = list \/ \E i \in 1 .. n : d.at = anchors[i]
                          /\ d.id \in {<<"missing", "item">>, <<"too-few", "item">>, <<"too-many", "item">>}
  <2>1. IsFiniteSet(short) /\ \A d \in short : OfCount(d, "item", list, anchors, n)
    BY <1>4, <1>5, <1>6, CardinalityOfFacts
  <2> HIDE DEF short
  <2>2. QED
    BY <2>1 DEF OfCount
<1> HIDE DEF over, short
<1>10. Extended(over \union short)
  BY <1>1, <1>3, <1>8, <1>9, EmitExtends, FS_Union
<1>11. \A d \in over \union short : /\ Placed(d) /\ d.id \notin Judging
                                    /\ \A h \in Heading : OrderViolation(d, h) => Vindicated(h)
  <2>1. SUFFICES ASSUME NEW d \in over \union short
                 PROVE  Placed(d) /\ d.id \notin Judging /\ \A h \in Heading : OrderViolation(d, h) => Vindicated(h)
    OBVIOUS
  <2>2. d.at = list \/ \E i : d.at = Append(list, i)
    BY <1>7, <1>8, <1>9
  <2>3. Placed(d)
    BY <1>2, <2>2, AnchorsArePlaced DEF list
  <2>4. PICK what : d.id = <<what, "item">>
    BY <1>8, <1>9
  <2>5. QED
    BY <2>3, <2>4, OtherKinds
<1>12. Walking'
  BY <1>1, <1>3, <1>10, <1>11, EvaluatedStays, NoTasks, IdleStep
<1>13. \A d \in over \union short : Says(Now, d)
  <2>1. SUFFICES ASSUME NEW d \in over \union short PROVE Says(Now, d)
    OBVIOUS
  <2>2. d.at = list \/ \E i : d.at = Append(list, i)
    BY <1>7, <1>8, <1>9
  <2>3. d.at # <<>> /\ d.at[1] = Now.of /\ d.at[2] = Now.block
    BY <2>2 DEF list
  <2>4. d.id[2] = "item"
    BY <1>8, <1>9
  <2>5. QED
    BY <1>1, <2>3, <2>4 DEF Says
<1>14. Voicing => Voicing'
  BY <1>1, <1>3, <1>10, <1>12, <1>13, LeafStep
<1>15. QED
  BY <1>12, <1>14

(* The value of a bound heading is evaluated.                               *)
LEMMA CaptureKeeps ==
    ASSUME Walking, BindRuleCaptures
    PROVE  Walking' /\ (Voicing => Voicing')
<1> DEFINE h == Now.of
           said == Diagnostic("invalid-value", "section", <<h>>, By("capture", Now.path))
<1>1. /\ FitsTask(Now) /\ Now.do = "capture" /\ Opened /\ Now = agenda[1]
      /\ IsSeq(agenda) /\ IsSeq(pending) /\ agenda # <<>>
  <2>1. Doing("capture") /\ "capture" \notin Opening
    BY DEF BindRuleCaptures, Opening
  <2>2. QED
    BY <2>1, NowFits
<1>2. h \in Sound /\ h \in Heading /\ bound[h] # None
  BY <1>1 DEF FitsTask, Sound
<1>3. UNCHANGED <<input, bound, values, outcome>> /\ Continue(<<>>)
  BY DEF BindRuleCaptures
<1>4. Heading' = Heading /\ text' = text
  BY <1>3, InputStays DEF input
<1>5. CASE UNCHANGED <<captured, pending>>
  <2>1. Extended({})
    BY <1>1, <1>5, SilenceExtends
  <2>2. Walking'
    BY <1>1, <1>3, <1>5, <2>1, EvaluatedStays, NoTasks, IdleStep
  <2>3. Voicing => Voicing'
    BY <1>1, <1>3, <2>1, <2>2, LeafStep
  <2>4. QED
    BY <2>2, <2>3
<1>6. CASE text[h].value = Unparsable /\ captured' = [captured EXCEPT ![h] = "invalid"] /\ Emit({said})
  <2>1. captured' \in [Heading -> {"unevaluated", "valid", "invalid"}] /\ EvaluatedOfBound'
    BY <1>2, <1>3, <1>4, <1>6 DEF Walking, Shaped, EvaluatedOfBound
  <2>2. Extended({said})
    BY <1>1, <1>6, EmitExtends, FS_Singleton
  <2>3. said.at = <<h>> /\ said.id = <<"invalid-value", "section">>
    BY DEF Diagnostic
  <2> HIDE DEF said
  <2>4. Placed(said) /\ said.id \notin Judging /\ \A g : ~OrderViolation(said, g)
    <3>1. Placed(said)
      BY <1>2, <2>3, AnchorsArePlaced
    <3>2. said.id \notin Judging /\ \A g : ~OrderViolation(said, g)
      BY <2>3, OtherWords
    <3>3. QED
      BY <3>1, <3>2
  <2>5. Walking'
    BY <1>1, <1>3, <2>1, <2>2, <2>4, NoTasks, IdleStep
  <2>6. Says(Now, said)
    BY <1>1, <2>3 DEF Says
  <2>7. Voicing => Voicing'
    BY <1>1, <1>3, <2>2, <2>5, <2>6, LeafStep
  <2>8. QED
    BY <2>5, <2>7
<1>7. CASE text[h].value # Unparsable /\ captured' = [captured EXCEPT ![h] = "valid"] /\ UNCHANGED pending
  <2>1. captured' \in [Heading -> {"unevaluated", "valid", "invalid"}] /\ EvaluatedOfBound'
    BY <1>2, <1>3, <1>4, <1>7 DEF Walking, Shaped, EvaluatedOfBound
  <2>2. Extended({})
    BY <1>1, <1>7, SilenceExtends
  <2>3. Walking'
    BY <1>1, <1>3, <2>1, <2>2, NoTasks, IdleStep
  <2>4. Voicing => Voicing'
    BY <1>1, <1>3, <2>2, <2>3, LeafStep
  <2>5. QED
    BY <2>3, <2>4
<1>8. QED
  BY <1>5, <1>6, <1>7 DEF BindRuleCaptures

(* An order is judged only over headings whose values all parsed.           *)
LEMMA OrderKeeps ==
    ASSUME Walking, ValidateValueOrder
    PROVE  Walking' /\ (Voicing => Voicing')
<1> DEFINE hs(c) == Occurrences(Now.sections, Append(Now.path, c))
           pair(c) == {j \in 1 .. Len(hs(c)) - 1 :
                          ~Satisfies(Now.rules[c].order, text[hs(c)[j]].value, text[hs(c)[j + 1]].value)}
           said(c) == [i \in pair(c) |-> Diagnostic("order-violation", "section", <<hs(c)[i + 1]>>,
                                                    By("order", Append(Now.path, c)))]
           f == [c \in 1 .. Len(Now.rules) |->
                   IF Now.rules[c].order = None \/ ~Comparable(hs(c)) THEN {}
                   ELSE {said(c)[i] : i \in DOMAIN said(c)}]
           D == UNION {f[c] : c \in DOMAIN f}
<1>1. /\ FitsTask(Now) /\ Now.do = "order" /\ Opened /\ Now = agenda[1] /\ 1 \in DOMAIN agenda
      /\ IsSeq(agenda) /\ IsSeq(pending) /\ agenda # <<>>
  <2>1. Doing("order") /\ "order" \notin Opening
    BY DEF ValidateValueOrder, Opening
  <2>2. QED
    BY <2>1, NowFits
<1>2. SoundSections(Now.sections) /\ IsSeq(Now.rules) /\ Now.path \in Seq(Nat)
  BY <1>1 DEF FitsTask
<1> DEFINE one(c) == IF Now.rules[c].order = None \/ ~Comparable(hs(c)) THEN {}
                     ELSE {Diagnostic("order-violation", "section", <<hs(c)[i + 1]>>, By("order", Append(Now.path, c))) :
                             i \in pair(c)}
<1>3. UNCHANGED <<input, bound, captured, values, outcome>> /\ Continue(<<>>)
      /\ Emit(UNION {one(c) : c \in 1 .. Len(Now.rules)})
  BY DEF ValidateValueOrder
<1>4. UNCHANGED <<input, bound, captured, values, outcome>> /\ Emit(D) /\ Continue(<<>>)
  <2>1. ASSUME NEW c \in 1 .. Len(Now.rules) PROVE one(c) = f[c]
    <3> HIDE DEF pair
    <3>1. QED
      OBVIOUS
  <2>2. DOMAIN f = 1 .. Len(Now.rules)
    OBVIOUS
  <2> HIDE DEF one, f
  <2>3. UNION {one(c) : c \in 1 .. Len(Now.rules)} = D
    BY <2>1, <2>2
  <2>4. QED
    BY <1>3, <2>3
<1>5. Now.sections \in Seq(Sound) /\ Now.sections \in Seq(Heading) /\ Distinct(Now.sections)
      /\ Lists!ToSet(Now.sections) \subseteq Sound /\ Sound \subseteq Heading
  <2>1. Now.sections \in Seq(Sound) /\ Sound \subseteq Heading
    BY <1>2 DEF SoundSections, Sound
  <2>2. Lists!ToSet(Now.sections) \subseteq Sound
    BY <2>1, SeqIsSeq
  <2>3. QED
    BY <1>2, <2>1, <2>2, SeqOfSet DEF SoundSections
<1>6. DOMAIN f = 1 .. Len(Now.rules) /\ Len(Now.rules) \in Nat /\ IsFiniteSet(DOMAIN f)
  <2>1. Len(Now.rules) \in Nat
    BY <1>2, SeqFacts
  <2>2. QED
    BY <2>1, FS_Interval
<1>7. ASSUME NEW c \in 1 .. Len(Now.rules)
      PROVE  /\ hs(c) \in Seq(Sound) /\ Len(hs(c)) \in Nat
             /\ \A g : g \in Lists!ToSet(hs(c)) <=> g \in Lists!ToSet(Now.sections) /\ bound[g] = Append(Now.path, c)
  <2> DEFINE S == {h \in Heading : bound[h] = Append(Now.path, c)}
  <2>1. hs(c) = Only(Now.sections, S)
    BY DEF Occurrences
  <2>2. Lists!ToSet(Now.sections) \cap S \subseteq Sound
    BY <1>5
  <2> HIDE DEF S
  <2>3. SoundSections(hs(c)) /\ Lists!ToSet(hs(c)) = Lists!ToSet(Now.sections) \cap S
    BY <1>5, <2>1, <2>2, AmongFacts
  <2> HIDE DEF hs
  <2>4. QED
    BY <1>5, <2>3 DEF S, SoundSections
<1>8. ASSUME NEW c \in 1 .. Len(Now.rules)
      PROVE  /\ IsFiniteSet(f[c])
             /\ \A d \in f[c] : /\ Comparable(hs(c)) /\ d.id = <<"order-violation", "section">>
                                /\ \E i \in 1 .. Len(hs(c)) : d.at = <<hs(c)[i]>>
  <2>1. pair(c) \in SUBSET (1 .. Len(hs(c)) - 1) /\ IsFiniteSet(1 .. Len(hs(c)) - 1)
    <3>1. Len(hs(c)) - 1 \in Int
      BY <1>7
    <3> HIDE DEF hs
    <3>2. QED
      BY <3>1, FS_Interval
  <2>2. IsFiniteSet(pair(c))
    BY <2>1, FS_Subset
  <2>3. DOMAIN said(c) = pair(c)
    OBVIOUS
  <2>4. \A i \in pair(c) : i + 1 \in 1 .. Len(hs(c)) /\ said(c)[i].at = <<hs(c)[i + 1]>>
                           /\ said(c)[i].id = <<"order-violation", "section">>
    <3>1. \A i \in 1 .. Len(hs(c)) - 1 : i + 1 \in 1 .. Len(hs(c))
      BY <1>7
    <3> HIDE DEF hs
    <3>2. QED
      BY <3>1 DEF Diagnostic
  <2>5. f[c] = IF Now.rules[c].order = None \/ ~Comparable(hs(c)) THEN {} ELSE {said(c)[i] : i \in DOMAIN said(c)}
    OBVIOUS
  <2> HIDE DEF f, said, pair, hs
  <2>6. IsFiniteSet({said(c)[i] : i \in DOMAIN said(c)})
    BY <2>2, <2>3, ValuesAreFinite
  <2>7. IsFiniteSet(f[c])
    BY <2>5, <2>6, FS_EmptySet
  <2>8. QED
    BY <2>3, <2>4, <2>5, <2>7
<1> HIDE DEF f
<1>9. IsFiniteSet(D)
  BY <1>6, <1>8, FamilyIsFinite
<1>10. \A d \in D : /\ Placed(d) /\ d.id \notin Judging
                    /\ \A h \in Heading : OrderViolation(d, h) => Vindicated(h)
                    /\ Says(Now, d)
  <2>1. SUFFICES ASSUME NEW c \in 1 .. Len(Now.rules), NEW d \in f[c]
                 PROVE  /\ Placed(d) /\ d.id \notin Judging /\ \A h \in Heading : OrderViolation(d, h) => Vindicated(h)
                        /\ Says(Now, d)
    BY <1>6
  <2>2. /\ Comparable(hs(c)) /\ d.id = <<"order-violation", "section">>
        /\ \E i \in 1 .. Len(hs(c)) : d.at = <<hs(c)[i]>>
    BY <1>8
  <2> HIDE DEF hs
  <2>3. PICK i \in 1 .. Len(hs(c)) : d.at = <<hs(c)[i]>>
    BY <2>2
  <2>4. hs(c)[i] \in Sound /\ hs(c)[i] \in Lists!ToSet(hs(c))
    BY <1>7 DEF Lists!ToSet
  <2>5. Placed(d)
    BY <2>3, <2>4, AnchorsArePlaced
  <2>6. d.id \notin Judging
    BY <2>2, OtherWords
  <2>7. ASSUME NEW h \in Heading, OrderViolation(d, h) PROVE Vindicated(h)
    <3>1. h = hs(c)[i]
      BY <2>3, <2>7 DEF OrderViolation
    <3>2. h \in Lists!ToSet(Now.sections) /\ bound[h] = Append(Now.path, c)
      BY <1>7, <2>4, <3>1
    <3>3. bound[h] # None
      <4>1. Append(Now.path, c) \in Seq(Nat)
        BY <1>2, <1>6
      <4>2. QED
        BY <3>2, <4>1, NoneIsApart
    <3>4. /\ Alone(h)
          /\ \A g \in Heading : Parent(g) = Parent(h) /\ bound[g] # None => g \in Lists!ToSet(Now.sections)
      BY <1>1, <3>2 DEF Walking, OrderedAlone
    <3>5. ASSUME NEW g \in Heading, Parent(g) = Parent(h), bound[g] = bound[h] PROVE text[g].value # Unparsable
      <4>1. g \in Lists!ToSet(hs(c))
        BY <1>7, <3>2, <3>3, <3>4, <3>5
      <4>2. PICK j \in DOMAIN hs(c) : hs(c)[j] = g
        BY <4>1 DEF Lists!ToSet
      <4>3. j \in 1 .. Len(hs(c))
        BY <1>7
      <4>4. captured[g] = "valid"
        BY <2>2, <4>2, <4>3 DEF Comparable
      <4>5. QED
        BY <4>4 DEF Walking, EvaluatedOfBound
    <3>6. QED
      BY <3>3, <3>4, <3>5 DEF Vindicated
  <2>8. Says(Now, d)
    <3>1. hs(c)[i] \in Lists!ToSet(Now.sections)
      BY <1>7, <2>4
    <3>2. QED
      BY <1>1, <2>2, <2>3, <3>1 DEF Says
  <2>9. QED
    BY <2>5, <2>6, <2>7, <2>8
<1> HIDE DEF D
<1>11. Extended(D)
  BY <1>1, <1>4, <1>9, EmitExtends
<1>12. Walking'
  BY <1>1, <1>4, <1>10, <1>11, EvaluatedStays, NoTasks, IdleStep
<1>13. Voicing => Voicing'
  BY <1>1, <1>4, <1>10, <1>11, <1>12, LeafStep
<1>14. QED
  BY <1>12, <1>13

(* The constraints and the rules of a scope.                                *)
LEMMA ScopeFacts ==
    ASSUME NEW scope \in Grammars \union {None}
    PROVE  /\ IsSeq(ConstraintsOf(scope)) /\ IsSeq(Rules(scope))
           /\ ConstraintsOf(scope) = <<>> \/ (scope \in Grammars /\ ConstraintsOf(scope) = scope.constraints)
           /\ \A c \in DOMAIN Rules(scope) : /\ Rules(scope)[c].children \in Grammars \union {None}
                                             /\ Rules(scope)[c].content \in Contents \union {None}
<1>1. IsSeq(<<>>) /\ DOMAIN <<>> = {}
  BY DEF IsSeq
<1>2. QED
  BY <1>1, GrammarsNest DEF ConstraintsOf, Rules

(* What the constraints of a scope are read to violate.                     *)
LEMMA ConstraintFacts ==
    ASSUME Typed, NEW scope \in Grammars \union {None}, NEW k \in DOMAIN ConstraintsOf(scope),
           NEW by, "node" \in DOMAIN by
    PROVE  LET constraint == ConstraintsOf(scope)[k] IN
           /\ IsFiniteSet(InvalidReads(constraint, by)) /\ IsFiniteSet(Violation(constraint, by))
           /\ \A d \in InvalidReads(constraint, by) : d.at = <<>> /\ d.id = <<"invalid-value", "frontmatter">> /\ IsRead(d)
           /\ \A d \in Violation(constraint, by) : d.at = Now.parent /\ d.id = <<constraint.is, "constraint">>
<1> DEFINE constraint == ConstraintsOf(scope)[k]
           asked == {q \in QueriesOf(constraint) : q.literal = None}
           nodes(p) == Unreadable(QueryNodes(frontmatter, p.query))
           entry(p) == [node \in nodes(p) |-> EntryDiagnostic("invalid-value", node[1], node[1], p.query,
                                                              [by EXCEPT !.node = "read"])]
           f == [p \in asked |-> {entry(p)[node] : node \in DOMAIN entry(p)}]
<1>1. scope \in Grammars /\ ConstraintsOf(scope) = scope.constraints
  BY ScopeFacts
<1>2. IsSeq(constraint.refs)
  BY <1>1, GrammarsNest
<1>3. IsFiniteSet(asked) /\ asked \subseteq QueriesOf(constraint)
  <2>1. constraint.refs \in Seq(Lists!ToSet(constraint.refs))
    BY <1>2 DEF IsSeq
  <2> DEFINE refs == constraint.refs  T == Lists!ToSet(refs) \union {constraint.condition}
             before == IF constraint.condition = None THEN <<>> ELSE <<constraint.condition>>
  <2>2. before \in Seq(T) /\ refs \in Seq(T)
    <3>1. Lists!ToSet(refs) \subseteq T /\ constraint.condition \in T
      OBVIOUS
    <3> HIDE DEF T
    <3>2. refs \in Seq(T)
      BY <2>1, <3>1
    <3>3. <<>> \in Seq(T) /\ <<constraint.condition>> \in Seq(T)
      BY <3>1
    <3>4. QED
      BY <3>2, <3>3
  <2>3. Operands(constraint) = Joined(before, refs)
    BY DEF Operands, Joined
  <2> HIDE DEF before, refs, T
  <2>4. Joined(before, refs) \in Seq(T)
    BY <2>2 DEF Joined
  <2>5. IsFiniteSet(Lists!ToSet(Operands(constraint)))
    BY <2>3, <2>4, SeqIsSeq, ToSetIsFinite
  <2> HIDE DEF constraint
  <2>6. asked \in SUBSET Lists!ToSet(Operands(constraint))
    BY DEF QueriesOf
  <2>7. QED
    BY <2>5, <2>6, FS_Subset
<1>4. ASSUME NEW p \in asked PROVE IsFiniteSet(nodes(p))
  <2>1. p \in Lists!ToSet(Operands(constraint)) /\ p.is = "query"
    BY DEF QueriesOf
  <2>2. IsFiniteSet(QueryNodes(frontmatter, p.query))
    <3>1. CASE frontmatter.is = "mapping"
      <4>1. frontmatter.root \in {block.root : block \in MappingBlocks}
        BY <3>1 DEF Typed
      <4>2. IsFiniteSet(QueryResult(p.query, frontmatter.root))
        BY <1>1, <2>1, <4>1, QueriesFindFinitelyMany
      <4>3. QED
        BY <3>1, <4>2 DEF QueryNodes
    <3>2. CASE frontmatter.is # "mapping"
      BY <3>2, FS_EmptySet DEF QueryNodes
    <3>3. QED
      BY <3>1, <3>2
  <2> DEFINE found == QueryNodes(frontmatter, p.query)
  <2>3. Unreadable(found) \in SUBSET found
    BY DEF Unreadable
  <2> HIDE DEF found
  <2>4. IsFiniteSet(Unreadable(found))
    BY <2>2, <2>3, FS_Subset DEF found
  <2>5. QED
    BY <2>4 DEF found
<1>5. ASSUME NEW p \in asked
      PROVE  /\ IsFiniteSet(f[p])
             /\ \A d \in f[p] : d.at = <<>> /\ d.id = <<"invalid-value", "frontmatter">> /\ d.by.node = "read"
             /\ f[p] = {EntryDiagnostic("invalid-value", node[1], node[1], p.query, [by EXCEPT !.node = "read"]) :
                           node \in nodes(p)}
  <2>1. DOMAIN entry(p) = nodes(p) /\ f[p] = {entry(p)[node] : node \in DOMAIN entry(p)}
    OBVIOUS
  <2>2. \A node \in nodes(p) : /\ entry(p)[node].at = <<>> /\ entry(p)[node].id = <<"invalid-value", "frontmatter">>
                               /\ entry(p)[node].by.node = "read"
                               /\ entry(p)[node] = EntryDiagnostic("invalid-value", node[1], node[1], p.query,
                                                                   [by EXCEPT !.node = "read"])
    <3> DEFINE read == [by EXCEPT !.node = "read"]
    <3>1. read.node = "read"
      OBVIOUS
    <3> HIDE DEF nodes, read
    <3>2. \A node : LET d == EntryDiagnostic("invalid-value", node[1], node[1], p.query, read)
                   IN  d.at = <<>> /\ d.id = <<"invalid-value", "frontmatter">> /\ d.by = read
      BY DEF EntryDiagnostic, Diagnostic
    <3>3. QED
      BY <3>1, <3>2 DEF read
  <2> HIDE DEF entry, nodes, f
  <2>3. IsFiniteSet(f[p])
    BY <1>4, <2>1, ValuesAreFinite
  <2>4. QED
    BY <2>1, <2>2, <2>3
<1>6. InvalidReads(constraint, by) = UNION {f[p] : p \in DOMAIN f}
  <2>1. DOMAIN f = asked
    OBVIOUS
  <2>2. InvalidReads(constraint, by) =
            UNION {{EntryDiagnostic("invalid-value", node[1], node[1], p.query, [by EXCEPT !.node = "read"]) :
                        node \in nodes(p)} : p \in asked}
    BY DEF InvalidReads
  <2> HIDE DEF f, asked, nodes
  <2>3. QED
    BY <1>5, <2>1, <2>2
<1>7. IsFiniteSet(InvalidReads(constraint, by))
      /\ \A d \in InvalidReads(constraint, by) : d.at = <<>> /\ d.id = <<"invalid-value", "frontmatter">> /\ IsRead(d)
  <2>1. DOMAIN f = asked
    OBVIOUS
  <2> HIDE DEF f, asked
  <2>2. IsFiniteSet(UNION {f[p] : p \in DOMAIN f})
    BY <1>3, <1>5, <2>1, FamilyIsFinite
  <2>3. \A d \in InvalidReads(constraint, by) : d.at = <<>> /\ d.id = <<"invalid-value", "frontmatter">> /\ d.by.node = "read"
    BY <1>5, <1>6, <2>1
  <2>4. QED
    BY <1>6, <2>2, <2>3 DEF IsRead
<1>8. /\ IsFiniteSet(Violation(constraint, by))
      /\ \A d \in Violation(constraint, by) : d.at = Now.parent /\ d.id = <<constraint.is, "constraint">>
  <2> HIDE DEF constraint
  <2> DEFINE d == [Diagnostic(constraint.is, "constraint", Now.parent, by) EXCEPT
                     !.about = <<Involved(ResolveAll(Operands(constraint)))>>]
  <2>1. Violation(constraint, by) = {} \/ Violation(constraint, by) = {d}
    BY DEF Violation
  <2>2. d.at = Now.parent /\ d.id = <<constraint.is, "constraint">>
    BY DEF Diagnostic
  <2> HIDE DEF d
  <2>3. IsFiniteSet({d}) /\ IsFiniteSet({})
    BY FS_EmptySet, FS_Singleton
  <2>4. QED
    BY <2>1, <2>2, <2>3
<1>9. QED
  BY <1>7, <1>8

(* The constraints of a scope are checked; none of them judges a heading.   *)
LEMMA ConstraintsKeeps ==
    ASSUME Walking, ValidateConstraints
    PROVE  Walking' /\ (Voicing => Voicing')
<1> DEFINE current  == Now.current
           declared == ConstraintsOf(current.scope)
           by(k)    == By("constraint", Append(current.path, k))
           f        == [k \in DOMAIN declared |-> InvalidReads(declared[k], by(k)) \cup Violation(declared[k], by(k))]
           D        == UNION {f[k] : k \in DOMAIN f}
           matched  == {h \in Heading : \E c \in DOMAIN Rules(current.scope) : h \in Lists!ToSet(Matched(current, c))}
           under    == Only(current.sections, matched)
           tasks    == [i \in DOMAIN under |->
                          ConstraintsTask(ChildOf(current, Lists!Last(bound[under[i]]), under[i]), Now.root, <<under[i]>>)]
<1>1. /\ FitsTask(Now) /\ Now.do = "constraints" /\ Opened /\ Now = agenda[1] /\ 1 \in DOMAIN agenda
      /\ IsSeq(agenda) /\ IsSeq(pending) /\ agenda # <<>>
  <2>1. Doing("constraints") /\ "constraints" \notin Opening
    BY DEF ValidateConstraints, Opening
  <2>2. QED
    BY <2>1, NowFits
<1>2. /\ SoundSections(current.sections) /\ current.scope \in Grammars \union {None}
      /\ current.path \in Seq(Nat) /\ Now.parent \in Anchor
  BY <1>1 DEF FitsTask
<1>3. UNCHANGED <<input, bound, captured, values, outcome>>
  BY DEF ValidateConstraints
<1>4. Continue(tasks)
  BY DEF ValidateConstraints
<1>5. Emit(D)
  <2>1. Emit(UNION {InvalidReads(declared[k], by(k)) \cup Violation(declared[k], by(k)) : k \in DOMAIN declared})
    BY DEF ValidateConstraints
  <2>2. /\ DOMAIN f = DOMAIN declared
        /\ \A k \in DOMAIN declared : f[k] = InvalidReads(declared[k], by(k)) \cup Violation(declared[k], by(k))
    OBVIOUS
  <2> HIDE DEF declared, by, f
  <2>3. UNION {InvalidReads(declared[k], by(k)) \cup Violation(declared[k], by(k)) : k \in DOMAIN declared} = D
    BY <2>2
  <2>4. QED
    BY <2>1, <2>3
<1>6. /\ DOMAIN f = DOMAIN declared /\ IsFiniteSet(DOMAIN f)
      /\ \A k \in DOMAIN f : f[k] = InvalidReads(declared[k], by(k)) \cup Violation(declared[k], by(k))
  <2>1. IsSeq(declared)
    BY <1>2, ScopeFacts
  <2> HIDE DEF declared
  <2>2. QED
    BY <2>1, ToSetIsFinite
<1> HIDE DEF f
<1>7. ASSUME NEW k \in DOMAIN declared
      PROVE  /\ IsFiniteSet(f[k])
             /\ \A d \in f[k] : /\ d.at = <<>> \/ d.at = Now.parent
                                /\ \E what : d.id = <<what, "constraint">> \/ d.id = <<what, "frontmatter">>
                                /\ IsRead(d) \/ (d.at = Now.parent /\ d.id[2] = "constraint")
  <2>1. Typed /\ "node" \in DOMAIN by(k)
    BY DEF Walking, By
  <2> DEFINE reads == InvalidReads(declared[k], by(k))  broken == Violation(declared[k], by(k))
  <2>2. /\ IsFiniteSet(reads) /\ IsFiniteSet(broken)
        /\ \A d \in reads : d.at = <<>> /\ d.id = <<"invalid-value", "frontmatter">> /\ IsRead(d)
        /\ \A d \in broken : d.at = Now.parent /\ d.id = <<declared[k].is, "constraint">>
    BY <1>2, <2>1, ConstraintFacts
  <2>3. f[k] = reads \cup broken
    BY <1>6
  <2> HIDE DEF reads, broken
  <2>4. IsFiniteSet(f[k])
    BY <2>2, <2>3, FS_Union
  <2>5. QED
    BY <2>2, <2>3, <2>4
<1>8. IsFiniteSet(D)
  BY <1>6, <1>7, FamilyIsFinite
<1>9. \A d \in D : /\ Placed(d) /\ d.id \notin Judging
                   /\ \A h \in Heading : OrderViolation(d, h) => Vindicated(h)
  <2>1. SUFFICES ASSUME NEW k \in DOMAIN declared, NEW d \in f[k]
                 PROVE  Placed(d) /\ d.id \notin Judging /\ \A h \in Heading : OrderViolation(d, h) => Vindicated(h)
    BY <1>6
  <2>2. d.at \in Anchor
    BY <1>2, <1>7 DEF Anchor
  <2>3. Placed(d)
    BY <2>2, AnchorsArePlaced
  <2>4. PICK what : d.id = <<what, "constraint">> \/ d.id = <<what, "frontmatter">>
    BY <1>7
  <2>5. QED
    BY <2>3, <2>4, OtherKinds
<1>10. \A d \in D : IsRead(d) \/ (d.at = Now.parent /\ d.id[2] = "constraint")
  BY <1>6, <1>7
<1> HIDE DEF D
<1>11. Extended(D)
  BY <1>1, <1>5, <1>8, EmitExtends
<1>12. current.sections \in Seq(Sound) /\ Lists!ToSet(current.sections) \subseteq Sound
  <2>1. current.sections \in Seq(Sound)
    BY <1>2 DEF SoundSections
  <2>2. QED
    BY <2>1, SeqIsSeq
<1>13. under \in Seq(Sound) /\ Lists!ToSet(under) = Lists!ToSet(current.sections) \cap matched /\ Distinct(under)
  <2>1. Distinct(current.sections)
    BY <1>2 DEF SoundSections
  <2> HIDE DEF current, matched
  <2>2. QED
    BY <1>12, <2>1, OnlyFacts
<1>14. ASSUME NEW h \in Sound, h \in matched
       PROVE  /\ Rules(current.scope)[Lists!Last(bound[h])].children \in Grammars \union {None}
              /\ Append(current.path, Lists!Last(bound[h])) \in Seq(Nat)
  <2>1. PICK c \in DOMAIN Rules(current.scope) : h \in Lists!ToSet(Matched(current, c))
    BY <1>14
  <2>2. c \in Nat
    BY <1>2, ScopeFacts, SeqFacts
  <2>3. bound[h] = Append(current.path, c)
    <3> DEFINE S == {g \in Heading : bound[g] = Append(current.path, c)}
    <3>1. Matched(current, c) = <<>> \/ Matched(current, c) = Only(current.sections, S)
      BY DEF Matched
    <3>2. Lists!ToSet(<<>>) = {}
      BY DEF Lists!ToSet
    <3> HIDE DEF S, current
    <3>3. Lists!ToSet(Only(current.sections, S)) = Lists!ToSet(current.sections) \cap S
      BY <1>12, OnlyFacts
    <3>4. h \in S
      BY <2>1, <3>1, <3>2, <3>3
    <3>5. QED
      BY <3>4 DEF S, current
  <2>4. Append(current.path, c) \in Seq(Nat) /\ Lists!Last(Append(current.path, c)) = c
    BY <1>2, <2>2 DEF Lists!Last
  <2>5. QED
    BY <1>2, <2>1, <2>3, <2>4, ScopeFacts
<1>15. DOMAIN under = 1 .. Len(under) /\ Len(under) \in Nat 
       /\ \A i \in DOMAIN under : under[i] \in Sound /\ under[i] \in matched /\ under[i] \in Lists!ToSet(current.sections)
  <2>1. DOMAIN under = 1 .. Len(under) /\ Len(under) \in Nat
    BY <1>13
  <2>2. \A i \in DOMAIN under : under[i] \in Lists!ToSet(under)
    BY DEF Lists!ToSet
  <2> HIDE DEF under
  <2>3. QED
    BY <1>12, <1>13, <2>1, <2>2
<1> HIDE DEF under, matched
<1>16. ASSUME NEW i \in DOMAIN under, NEW t, t = tasks[i]
       PROVE  /\ t.do = "constraints" /\ FitsTask(t)
              /\ t.parent = <<under[i]>> /\ t.current.sections = ChildSections(under[i])
  <2> DEFINE h == under[i]  child == ChildOf(current, Lists!Last(bound[h]), h)
  <2>1. h \in Sound /\ h \in matched
    BY <1>15
  <2>2. t = ConstraintsTask(child, Now.root, <<h>>)
    BY <1>16
  <2>3. /\ child.sections = ChildSections(h)
        /\ child.scope = Rules(current.scope)[Lists!Last(bound[h])].children
        /\ child.path = Append(current.path, Lists!Last(bound[h]))
    BY DEF ChildOf, BoundScope
  <2>4. SoundSections(ChildSections(h))
    BY <2>1, ChildSectionsFacts DEF Walking
  <2>5. <<h>> \in Anchor
    BY <2>1, AnchorsArePlaced
  <2> HIDE DEF h, child
  <2>6. t.do = "constraints" /\ t.current = child /\ t.parent = <<h>>
    BY <2>2 DEF ConstraintsTask
  <2>7. child.scope \in Grammars \union {None} /\ child.path \in Seq(Nat)
    BY <1>14, <2>1, <2>3
  <2>8. FitsTask(t)
    BY <2>3, <2>4, <2>5, <2>6, <2>7 DEF FitsTask
  <2>9. QED
    BY <2>3, <2>6, <2>8 DEF h
<1>17. tasks \in Seq(Lists!ToSet(tasks)) /\ DOMAIN tasks = DOMAIN under
  BY <1>15 DEF Lists!ToSet
<1> HIDE DEF tasks
<1>18. Continued(tasks)
  BY <1>1, <1>4, <1>17, ContinueMoves
<1>19. Idle(tasks) /\ \A t \in Lists!ToSet(tasks) : FitsTask(t)'
  <2>1. \A t \in Lists!ToSet(tasks) : t.do = "constraints" /\ FitsTask(t)
    BY <1>16, <1>17 DEF Lists!ToSet
  <2>2. \A t \in Lists!ToSet(tasks) : FitsTask(t)'
    BY <1>3, <2>1, FitsStays DEF Growing
  <2>3. Idle(tasks)
    BY <2>1 DEF Idle, Lists!ToSet
  <2>4. QED
    BY <2>2, <2>3
<1>20. Walking'
  BY <1>1, <1>3, <1>9, <1>11, <1>18, <1>19, EvaluatedStays, IdleStep
<1>21. ASSUME Voicing PROVE Voicing'
  <2>1. Typed /\ Parted(current.sections, Now.parent)
    BY <1>1, <1>21 DEF Voicing, Branching, Walking
  <2>2. \A d \in D : IsRead(d) \/ Says(Now, d)
    BY <1>1, <1>10 DEF Says
  <2>3. ASSUME NEW i \in DOMAIN under, NEW d, Says(tasks[i], d)
        PROVE  d.id[2] = "constraint" /\ d.at # <<>> /\ d.at[1] \in Branch(under[i])
    <3>1. /\ d.id[2] = "constraint"
          /\ d.at = <<under[i]>> \/ Within(ChildSections(under[i]), d)
      BY <1>16, <2>3 DEF Says
    <3>2. under[i] \in Sound /\ under[i] \in Heading
      BY <1>15 DEF Sound
    <3>3. under[i] \in Branch(under[i])
      BY <2>1, <3>2, BranchFacts
    <3>4. CASE d.at = <<under[i]>>
      BY <3>1, <3>3, <3>4
    <3>5. CASE Within(ChildSections(under[i]), d)
      BY <2>1, <3>1, <3>2, <3>5, WithinChildren
    <3>6. QED
      BY <3>1, <3>4, <3>5
  <2>4. ASSUME NEW i \in DOMAIN under, NEW d, Says(tasks[i], d) PROVE Says(Now, d)
    BY <1>1, <1>15, <2>3, <2>4 DEF Says, Within
  <2>5. ASSUME NEW i \in DOMAIN under, NEW d, Says(tasks[i], d), d \in D PROVE FALSE
    <3>1. d.id[2] = "constraint" /\ d.at # <<>> /\ d.at[1] \in Branch(under[i])
      BY <2>3, <2>5
    <3>2. d.at = Now.parent
      BY <1>10, <2>5, <3>1 DEF IsRead
    <3>3. PICK p : d.at = <<p>>
      BY <1>2, <3>1, <3>2 DEF Anchor
    <3>4. Now.parent = <<p>> /\ p \in Branch(under[i]) /\ under[i] \in Lists!ToSet(current.sections)
      BY <1>15, <3>1, <3>2, <3>3
    <3>5. QED
      BY <2>1, <3>4 DEF Parted
  <2>6. ASSUME NEW i \in DOMAIN under, NEW j \in DOMAIN under, NEW d, Says(tasks[i], d), Says(tasks[j], d)
        PROVE  i = j
    <3>1. d.at[1] \in Branch(under[i]) /\ d.at[1] \in Branch(under[j])
      BY <2>3, <2>6
    <3>2. under[i] = under[j]
      BY <1>15, <2>1, <3>1 DEF Parted
    <3>3. QED
      BY <1>13, <3>2 DEF Distinct
  <2>7. \A i \in DOMAIN under : Branching(tasks[i])
    <3>1. \A i \in DOMAIN under : Parted(ChildSections(under[i]), <<under[i]>>)
      BY <1>15, <2>1, ChildrenPart
    <3>2. QED
      BY <1>16, <3>1 DEF Branching
  <2>8. QED
    BY <1>1, <1>3, <1>11, <1>17, <1>18, <1>20, <1>21, <2>2, <2>4, <2>5, <2>6, <2>7, VoicingStep
<1>22. QED
  BY <1>20, <1>21

(* A document has finitely many headings.                                   *)
LEMMA HeadingsAreFinite ==
    ASSUME Typed
    PROVE  IsFiniteSet(Heading)
<1>1. Heading = 1 .. Len(level) /\ Len(level) \in Nat
  BY DEF Typed, Heading
<1>2. QED
  BY <1>1, FS_Interval

(* Before the root is entered nothing is bound and nobody judged.           *)
LEMMA OpeningStep ==
    ASSUME Walking, NEW do \in {"frontmatter", "captures", "levels"}, Doing(do), Continue(<<>>),
           UNCHANGED <<input, bound, captured, outcome>>,
           NEW D, IsFiniteSet(D), Emit(D),
           \A d \in D : Placed(d) /\ d.id \notin Judging /\ \A h : ~OrderViolation(d, h),
           \A d \in D : Says(agenda[1], d)
    PROVE  Walking' /\ (Voicing => Voicing')
<1>1. Unopened /\ Now = agenda[1] /\ Now.do = do
  <2>1. agenda[1].do \in Opening /\ 1 \in DOMAIN agenda /\ Now = agenda[1] /\ Now.do = do
    BY NowFits DEF Opening
  <2>2. QED
    BY <2>1 DEF Walking, Opened
<1>2. Extended(D)
  BY EmitExtends DEF Walking, Shaped
<1>3. Heading' = Heading /\ (\A h : Parent(h)' = Parent(h)) /\ \A h : Judgements(h)' = Judgements(h)
  BY <1>2, InputStays, JudgementsGrow DEF Judges
<1>4. agenda' \in {<<Task("captures"), Task("levels"), Task("root")>>, <<Task("levels"), Task("root")>>, <<Task("root")>>}
  <2>1. agenda' = <<>> \o Tail(agenda)
    BY DEF Continue
  <2>2. CASE agenda = <<Task("frontmatter"), Task("captures"), Task("levels"), Task("root")>>
    BY <2>1, <2>2
  <2>3. CASE agenda = <<Task("captures"), Task("levels"), Task("root")>>
    BY <2>1, <2>3
  <2>4. CASE agenda = <<Task("levels"), Task("root")>>
    BY <2>1, <2>4
  <2>5. CASE agenda = <<Task("root")>>
    BY <1>1, <2>5 DEF Task
  <2>6. QED
    BY <1>1, <2>2, <2>3, <2>4, <2>5 DEF Unopened
<1>5. Unopened'
  BY <1>1, <1>3, <1>4 DEF Unopened, Fresh
<1>6. \A k \in DOMAIN agenda' : agenda'[k].do \in Opening
  BY <1>4 DEF Task, Opening
<1>7. \A t : t.do \in Opening => FitsTask(t)' /\ Listed(t) = {}
  <2>1. \A t : t.do \in Opening => FitsTask(t)'
    BY DEF FitsTask, Opening
  <2>2. QED
    BY <2>1 DEF Listed, Opening
<1>8. Shaped'
  <2>1. Continued(<<>>)
    BY NowFits, NoTasks
  <2>2. captured' \in [Heading -> {"unevaluated", "valid", "invalid"}]
    BY EvaluatedStays
  <2>3. \A t \in Lists!ToSet(<<>>) : FitsTask(t)'
    BY DEF Lists!ToSet
  <2>4. QED
    BY <1>2, <2>1, <2>2, <2>3, ShapeStays DEF Walking, Growing
<1>9. Typed' /\ EvaluatedOfBound'
  BY InputStays, EvaluatedStays DEF Walking
<1>10. \A k \in DOMAIN agenda' : /\ agenda'[k].do \notin {"order", "refuse_titles"} /\ Listed(agenda'[k]) = {}
  BY <1>6, <1>7 DEF Opening
<1>11. \A h \in Heading : bound'[h] = None /\ Judgements(h)' = {}
  BY <1>1, <1>3 DEF Unopened, Fresh
<1>12. Refusing'
  BY <1>3, <1>10, <1>11 DEF Refusing
<1>13. ListedOnce'
  <2>1. \A t : Listed(t)' = Listed(t)
    BY DEF Listed
  <2>2. QED
    BY <1>10, <2>1 DEF ListedOnce
<1>14. Apart'
  BY <1>3, <1>11 DEF Apart
<1>15. OrderedAlone'
  BY <1>10 DEF OrderedAlone
<1>16. ViolatedAlone'
  <2>1. ASSUME NEW i \in DOMAIN pending', NEW h \in Heading, OrderViolation(pending'[i].diagnostic, h) PROVE FALSE
    <3>1. CASE i \in DOMAIN pending
      BY <1>1, <2>1, <3>1, <1>2 DEF Extended, ViolatedAlone, Walking, Unopened, Fresh
    <3>2. CASE i \notin DOMAIN pending
      BY <1>2, <2>1, <3>2 DEF Extended
    <3>3. QED
      BY <3>1, <3>2
  <2>2. \A d, h : OrderViolation(d, h)' = OrderViolation(d, h)
    BY DEF OrderViolation
  <2>3. QED
    BY <1>3, <2>1, <2>2 DEF ViolatedAlone
<1>17. Voicing /\ Walking' => Voicing'
  BY <1>2, NowFits, LeafStep
<1>18. Walking'
  BY <1>5, <1>8, <1>9, <1>12, <1>13, <1>14, <1>15, <1>16 DEF Walking
<1>19. QED
  BY <1>17, <1>18

(* the frontmatter is checked,                                              *)
LEMMA FrontmatterKeeps ==
    ASSUME Walking, ValidateFrontmatter
    PROVE  Walking' /\ (Voicing => Voicing')
<1> DEFINE about(what, node) == {Diagnostic(what, "frontmatter", <<>>, By(node, <<>>))}
           D1 == IF frontmatter.is = "absent" /\ schema.frontmatter = "required"
                 THEN about("missing", "frontmatter") ELSE {}
           D2 == IF frontmatter.is # "absent" /\ schema.frontmatter = "forbidden"
                 THEN about("forbidden", "frontmatter") ELSE {}
           D3 == IF frontmatter.is = "invalid" THEN about("invalid", "frontmatter") ELSE {}
           D4 == IF frontmatter.is = "mapping" /\ ~frontmatter.accepted /\ schema.linked
                 THEN about("schema", "frontmatter_schema") ELSE {}
           D  == D1 \union D2 \union D3 \union D4
<1>1. Emit(D)
  BY DEF ValidateFrontmatter
<1>2. /\ Doing("frontmatter") /\ Continue(<<>>) /\ UNCHANGED <<input, bound, captured, outcome>>
  BY DEF ValidateFrontmatter
<1>3. ASSUME NEW what, NEW node
      PROVE  IsFiniteSet(about(what, node)) /\ \A d \in about(what, node) :
                d.at = <<>> /\ d.id = <<what, "frontmatter">> /\ d.by.node = node
  <2>1. IsFiniteSet(about(what, node))
    BY FS_Singleton
  <2>2. \A d \in about(what, node) : d.at = <<>> /\ d.id = <<what, "frontmatter">> /\ d.by.node = node
    BY DEF Diagnostic, By
  <2>3. QED
    BY <2>1, <2>2
<1> HIDE DEF about
<1>4. IsFiniteSet(D1) /\ IsFiniteSet(D2) /\ IsFiniteSet(D3) /\ IsFiniteSet(D4)
  BY <1>3, FS_EmptySet
<1>5. \A d \in D : /\ d.at = <<>> /\ \E what : d.id = <<what, "frontmatter">>
                   /\ d.by.node \in {"frontmatter", "frontmatter_schema"}
  BY <1>3
<1>6. IsFiniteSet(D)
  <2> HIDE DEF D1, D2, D3, D4
  <2>1. QED
    BY <1>4, FS_Union
<1> HIDE DEF D
<1>7. \A d \in D : Placed(d) /\ d.id \notin Judging /\ \A h : ~OrderViolation(d, h)
  BY <1>5, OtherKinds DEF Placed
<1>8. \A d \in D : Says(agenda[1], d)
  <2>1. agenda[1].do = "frontmatter"
    BY <1>2, NowFits
  <2>2. QED
    BY <1>5, <2>1 DEF Says
<1>9. QED
  BY <1>1, <1>2, <1>6, <1>7, <1>8, OpeningStep

(* its captures are evaluated,                                              *)
LEMMA CapturesKeeps ==
    ASSUME Walking, EvaluateCaptures
    PROVE  Walking' /\ (Voicing => Voicing')
<1> DEFINE all == [c \in DOMAIN schema.captures |-> EvaluateCapture(frontmatter, schema.captures[c])]
           some == {k \in DOMAIN all : all[k].problem # None}
           f == [c \in some |-> EntryDiagnostic(all[c].problem, all[c].pointer, all[c].anchor, None,
                                                By("frontmatter_capture", <<schema.captures[c].name>>))]
           D == {f[c] : c \in DOMAIN f}
<1>1. Emit({EntryDiagnostic(all[c].problem, all[c].pointer, all[c].anchor, None,
                            By("frontmatter_capture", <<schema.captures[c].name>>)) : c \in some})
  BY DEF EvaluateCaptures
<1>2. /\ Doing("captures") /\ Continue(<<>>) /\ UNCHANGED <<input, bound, captured, outcome>>
  BY DEF EvaluateCaptures
<1>3. some \in SUBSET DOMAIN schema.captures /\ IsFiniteSet(DOMAIN schema.captures)
  BY ToSetIsFinite DEF Walking, Typed
<1>4. IsFiniteSet(some)
  BY <1>3, FS_Subset
<1> HIDE DEF all, some
<1>5. /\ DOMAIN f = some /\ Emit(D)
      /\ \A c \in some : /\ f[c].at = <<>> /\ \E what : f[c].id = <<what, "frontmatter">>
                         /\ f[c].by.node = "frontmatter_capture"
  <2>1. /\ DOMAIN f = some
        /\ \A c \in some : /\ f[c].at = <<>> /\ \E what : f[c].id = <<what, "frontmatter">>
                           /\ f[c].by.node = "frontmatter_capture"
    BY DEF EntryDiagnostic, Diagnostic, By
  <2>2. {EntryDiagnostic(all[c].problem, all[c].pointer, all[c].anchor, None,
                         By("frontmatter_capture", <<schema.captures[c].name>>)) : c \in some} = D
    OBVIOUS
  <2>3. QED
    BY <1>1, <2>1, <2>2
<1> HIDE DEF f
<1>6. IsFiniteSet(D)
  BY <1>4, <1>5, ValuesAreFinite
<1>7. \A d \in D : Placed(d) /\ d.id \notin Judging /\ \A h : ~OrderViolation(d, h)
  BY <1>5, OtherKinds DEF Placed
<1>8. \A d \in D : Says(agenda[1], d)
  <2>1. agenda[1].do = "captures"
    BY <1>2, NowFits
  <2>2. QED
    BY <1>5, <2>1 DEF Says
<1>9. QED
  BY <1>2, <1>5, <1>6, <1>7, <1>8, OpeningStep

(* and skipped levels are reported.                                         *)
LEMMA LevelsKeeps ==
    ASSUME Walking, ValidateSkippedLevels
    PROVE  Walking' /\ (Voicing => Voicing')
<1> DEFINE S == {g \in Heading : Skips(g)}
           f == [h \in S |-> Diagnostic("skipped-level", "section", <<h>>, By("none", <<>>))]
           D == IF allowSkipped THEN {} ELSE {f[h] : h \in DOMAIN f}
<1>1. /\ Doing("levels") /\ Continue(<<>>) /\ UNCHANGED <<input, bound, captured, outcome>>
  BY DEF ValidateSkippedLevels
<1>2. Emit(D)
  <2>1. Emit(IF allowSkipped THEN {} ELSE {Diagnostic("skipped-level", "section", <<h>>, By("none", <<>>)) : h \in S})
    BY DEF ValidateSkippedLevels
  <2> HIDE DEF S
  <2>2. {Diagnostic("skipped-level", "section", <<h>>, By("none", <<>>)) : h \in S} = {f[h] : h \in DOMAIN f}
    OBVIOUS
  <2>3. QED
    BY <2>1, <2>2
<1>3. IsFiniteSet(S)
  <2>1. S \in SUBSET Heading /\ Typed
    BY DEF Walking
  <2>2. QED
    BY <2>1, HeadingsAreFinite, FS_Subset
<1>4. DOMAIN f = S /\ \A h \in S : f[h].id = <<"skipped-level", "section">>
  BY DEF Diagnostic
<1> HIDE DEF f, S
<1>5. IsFiniteSet(D)
  BY <1>3, <1>4, ValuesAreFinite, FS_EmptySet
<1>6. \A d \in D : d.id = <<"skipped-level", "section">>
  BY <1>4
<1> HIDE DEF D
<1>7. \A d \in D : Placed(d) /\ d.id \notin Judging /\ \A h : ~OrderViolation(d, h)
  BY <1>6, OtherWords DEF Placed
<1>8. \A d \in D : Says(agenda[1], d)
  <2>1. agenda[1].do = "levels"
    BY <1>1, NowFits
  <2>2. QED
    BY <1>6, <2>1 DEF Says
<1>9. QED
  BY <1>1, <1>2, <1>5, <1>7, <1>8, OpeningStep

(* A step that judges or binds headings that were untouched, and lists the  *)
(* children of those it binds.                                              *)
Newly(h) == bound[h] = None /\ bound'[h] # None

(* Nobody has been under a heading that was unbound and no title.           *)
LEMMA ChildrenAreUnreached ==
    ASSUME Walking, 1 \in DOMAIN agenda, NEW p \in Heading, p \in Listed(agenda[1]), NEW g \in Heading, Parent(g) = p
    PROVE  ~Reached(g)
<1>1. bound[p] = None /\ (schema.shape = "outline" \/ level[p] # 1)
  BY DEF Walking, ListedOnce
<1>2. p # 0
  BY ParentFacts DEF Walking
<1>3. QED
  BY <1>1, <1>2 DEF Reached

(* New tasks list only children of newly bound headings, each parent once.  *)
BindingTasks(tasks) ==
    /\ \A k \in DOMAIN tasks : tasks[k].do \in {"content", "capture", "scope", "order"}
    /\ \A k \in DOMAIN tasks : \A g \in Listed(tasks[k]) :
          g \in Heading /\ Parent(g) \in Heading /\ Newly(Parent(g)) /\ Admits(level[Parent(g)], g)
    /\ \A k, l \in DOMAIN tasks : \A g \in Listed(tasks[k]), h \in Listed(tasks[l]) : Parent(g) = Parent(h) => k = l
    /\ \A k \in DOMAIN tasks : tasks[k].do = "order" =>
          \A h \in Lists!ToSet(tasks[k].sections) :
              /\ h \in Listed(agenda[1])
              /\ \A g \in Heading : Newly(g) => g \in Lists!ToSet(tasks[k].sections)

(* A heading of the scope at hand that nobody else may touch.               *)
Untouched(h) ==
    /\ h \in Heading /\ Reached(h) /\ Judgements(h) = {} /\ bound[h] = None
    /\ \A k \in DOMAIN agenda : k # 1 => /\ h \notin Listed(agenda[k])
                                         /\ agenda[k].do = "refuse_titles" => level[h] # 1

(* Such a step keeps the invariant.                                         *)
LEMMA BindingStep ==
    ASSUME Walking, Opened, 1 \in DOMAIN agenda, UNCHANGED <<input, captured, outcome>>,
           DOMAIN bound' = Heading, \A h \in Heading : bound[h] # None => bound'[h] = bound[h],
           \A h \in Heading : Newly(h) => h \in Listed(agenda[1]),
           NEW D, Extended(D), \A d \in D : Placed(d) /\ \A h : ~OrderViolation(d, h),
           \A d \in D, h \in Heading : Judges(d, h) => Untouched(h) /\ ~Newly(h),
           \A d, e \in D, h \in Heading : Judges(d, h) /\ Judges(e, h) => d = e,
           NEW tasks, Continued(tasks), BindingTasks(tasks), \A t \in Lists!ToSet(tasks) : FitsTask(t)'
    PROVE  Walking'
<1>1. /\ Heading' = Heading /\ \A h : Parent(h)' = Parent(h)
      /\ level' = level /\ schema' = schema /\ text' = text /\ allowSkipped' = allowSkipped
      /\ captured' = captured
  BY InputStays DEF input
<1>2. Growing
  BY DEF Growing
<1>3. \A h \in Heading : Reached(h) => Reached(h)'
  BY <1>2, ReachedStays DEF Walking
<1> DEFINE e(k) == Earlier(k, tasks)
<1>4. \A k \in DOMAIN agenda' : \/ k \in DOMAIN tasks /\ agenda'[k] = tasks[k]
                                \/ e(k) \in DOMAIN agenda /\ e(k) # 1 /\ agenda'[k] = agenda[e(k)]
  BY DEF Continued
<1>5. \A k, l \in DOMAIN agenda' : e(k) = e(l) => k = l
  BY DEF Continued
<1> HIDE DEF e
<1>6. \A t : Listed(t)' = Listed(t)
  BY DEF Listed
<1>7. \A k \in DOMAIN tasks : tasks[k].do \in {"content", "capture", "scope", "order"}
  BY DEF BindingTasks
<1>8. Opened'
  <2>1. \A k \in DOMAIN agenda' : agenda'[k].do \notin Opening
    BY <1>4, <1>7 DEF Opened, Opening
  <2>2. QED
    BY <2>1 DEF Opened, Opening
<1>9. \A g \in Heading : /\ Judgements(g) \subseteq Judgements(g)'
                         /\ Judgements(g)' # Judgements(g) => Untouched(g) /\ ~Newly(g)
  <2>1. SUFFICES ASSUME NEW g \in Heading
                 PROVE /\ Judgements(g) \subseteq Judgements(g)'
                       /\ Judgements(g)' # Judgements(g) => Untouched(g) /\ ~Newly(g)
    OBVIOUS
  <2>2. QED
    BY JudgementsGrow
(* What is newly listed was out of reach.                                   *)
<1>10. \A k \in DOMAIN tasks : \A g \in Listed(tasks[k]) : \A h \in Heading : Parent(h) = Parent(g) => ~Reached(h)
  BY ChildrenAreUnreached DEF BindingTasks
<1>11. Refusing'
  <2>1. ASSUME NEW k \in DOMAIN agenda', agenda'[k].do = "refuse_titles"
        PROVE  /\ e(k) \in DOMAIN agenda /\ e(k) # 1 /\ agenda[e(k)].do = "refuse_titles"
               /\ schema.shape = "untitled" /\ \A h \in Heading : level[h] = 1 => Judgements(h)' = {}
    <3>1. e(k) \in DOMAIN agenda /\ e(k) # 1 /\ agenda[e(k)].do = "refuse_titles"
      BY <1>4, <1>7, <2>1
    <3>2. schema.shape = "untitled" /\ \A h \in Heading : level[h] = 1 => Judgements(h) = {}
      BY <3>1 DEF Walking, Refusing
    <3>3. \A h \in Heading : level[h] = 1 => ~Untouched(h)
      BY <3>1 DEF Untouched
    <3>4. QED
      BY <1>9, <3>1, <3>2, <3>3
  <2>2. \A k, l \in DOMAIN agenda' : agenda'[k].do = "refuse_titles" /\ agenda'[l].do = "refuse_titles" => k = l
    BY <1>5, <2>1 DEF Walking, Refusing
  <2>3. \A h \in Heading : bound'[h] # None /\ schema.shape # "outline" => level[h] # 1
    <3>1. \A h \in Heading : Newly(h) => schema.shape = "outline" \/ level[h] # 1
      BY DEF Walking, ListedOnce
    <3>2. QED
      BY <3>1 DEF Walking, Refusing, Newly
  <2>4. QED
    BY <1>1, <2>1, <2>2, <2>3 DEF Refusing
<1>12. \A k \in DOMAIN agenda, h \in Heading : k # 1 /\ h \in Listed(agenda[k]) =>
         /\ Judgements(h)' = {} /\ \A g \in Heading : Parent(g) = Parent(h) => bound'[g] = None
  <2>1. SUFFICES ASSUME NEW k \in DOMAIN agenda, NEW h \in Heading, k # 1, h \in Listed(agenda[k])
                 PROVE  Judgements(h)' = {} /\ \A g \in Heading : Parent(g) = Parent(h) => bound'[g] = None
    OBVIOUS
  <2>2. Judgements(h)' = {}
    <3>1. ~Untouched(h)
      BY <2>1 DEF Untouched
    <3>2. QED
      BY <1>9, <2>1, <3>1 DEF Walking, ListedOnce
  <2>3. ASSUME NEW g \in Heading, Parent(g) = Parent(h) PROVE bound'[g] = None
    <3>1. bound[g] = None
      BY <2>1, <2>3 DEF Walking, ListedOnce
    <3>2. g \notin Listed(agenda[1])
      BY <2>1, <2>3 DEF Walking, ListedOnce
    <3>3. QED
      BY <3>1, <3>2 DEF Newly
  <2>4. QED
    BY <2>2, <2>3
<1>13. \A k \in DOMAIN tasks : \A h \in Listed(tasks[k]) :
         /\ h \in Heading /\ Reached(h)' /\ Judgements(h)' = {} /\ level[h] # 1
         /\ \A g \in Heading : Parent(g) = Parent(h) => bound'[g] = None
  <2>1. SUFFICES ASSUME NEW k \in DOMAIN tasks, NEW h \in Listed(tasks[k])
                 PROVE  /\ h \in Heading /\ Reached(h)' /\ Judgements(h)' = {} /\ level[h] # 1
                        /\ \A g \in Heading : Parent(g) = Parent(h) => bound'[g] = None
    OBVIOUS
  <2>2. h \in Heading /\ Parent(h) \in Heading /\ Newly(Parent(h)) /\ Admits(level[Parent(h)], h)
    BY DEF BindingTasks
  <2>3. Parent(h) # 0 /\ level[h] # 1
    BY <2>2, ParentFacts DEF Walking
  <2>4. Reached(h)'
    <3>1. bound'[Parent(h)] # None /\ Admits(level[Parent(h)], h)' = Admits(level[Parent(h)], h)
      BY <1>1, <2>2 DEF Newly, Admits
    <3> DEFINE p == Parent(h)
    <3>2. p' = p
      BY <1>1
    <3>3. QED
      BY <1>1, <2>2, <2>3, <3>1, <3>2 DEF Reached
  <2>5. \A g \in Heading : Parent(g) = Parent(h) => ~Reached(g)
    BY <1>10
  <2>6. \A g \in Heading : Parent(g) = Parent(h) => bound[g] = None /\ Judgements(g) = {} /\ ~Untouched(g) /\ ~Newly(g)
    <3>1. \A g \in Heading : Newly(g) => Reached(g)
      BY DEF Walking, ListedOnce
    <3>2. QED
      BY <2>5, <3>1 DEF Untouched, Walking, Apart
  <2>7. Judgements(h)' = {}
    BY <1>9, <2>2, <2>6
  <2>8. QED
    BY <2>2, <2>3, <2>4, <2>6, <2>7 DEF Newly
<1>14. ListedOnce'
  <2>1. ASSUME NEW k \in DOMAIN agenda', NEW h \in Listed(agenda'[k])
        PROVE  /\ h \in Heading
               /\ Reached(h)' /\ Judgements(h)' = {} /\ (schema.shape = "outline" \/ level[h] # 1)
               /\ \A g \in Heading : Parent(g) = Parent(h) => bound'[g] = None
    <3>1. CASE k \in DOMAIN tasks /\ agenda'[k] = tasks[k]
      BY <1>13, <2>1, <3>1
    <3>2. CASE e(k) \in DOMAIN agenda /\ e(k) # 1 /\ agenda'[k] = agenda[e(k)]
      <4>1. h \in Heading
        BY <2>1, <3>2, ListedIsSound DEF Walking
      <4>2. Reached(h) /\ (schema.shape = "outline" \/ level[h] # 1)
        BY <2>1, <3>2 DEF Walking, ListedOnce
      <4>3. QED
        BY <1>3, <1>12, <2>1, <3>2, <4>1, <4>2
    <3>3. QED
      BY <1>4, <3>1, <3>2
  <2>2. ASSUME NEW k \in DOMAIN agenda', NEW l \in DOMAIN agenda',
               NEW g \in Listed(agenda'[k]), NEW h \in Listed(agenda'[l]), Parent(g) = Parent(h)
        PROVE  k = l
    <3>1. g \in Heading /\ h \in Heading
      BY <2>1
    <3>2. CASE k \in DOMAIN tasks /\ agenda'[k] = tasks[k] /\ l \in DOMAIN tasks /\ agenda'[l] = tasks[l]
      BY <2>2, <3>2 DEF BindingTasks
    <3>3. CASE /\ k \in DOMAIN tasks /\ agenda'[k] = tasks[k]
               /\ e(l) \in DOMAIN agenda /\ e(l) # 1 /\ agenda'[l] = agenda[e(l)]
      <4>1. Reached(h)
        BY <2>2, <3>3 DEF Walking, ListedOnce
      <4>2. QED
        BY <1>10, <2>2, <3>1, <3>3, <4>1
    <3>4. CASE /\ l \in DOMAIN tasks /\ agenda'[l] = tasks[l]
               /\ e(k) \in DOMAIN agenda /\ e(k) # 1 /\ agenda'[k] = agenda[e(k)]
      <4>1. Reached(g)
        BY <2>2, <3>4 DEF Walking, ListedOnce
      <4>2. QED
        BY <1>10, <2>2, <3>1, <3>4, <4>1
    <3>5. CASE /\ e(l) \in DOMAIN agenda /\ e(l) # 1 /\ agenda'[l] = agenda[e(l)]
               /\ e(k) \in DOMAIN agenda /\ e(k) # 1 /\ agenda'[k] = agenda[e(k)]
      <4>1. e(k) = e(l)
        BY <2>2, <3>5 DEF Walking, ListedOnce
      <4>2. QED
        BY <1>5, <4>1
    <3>6. QED
      BY <1>4, <3>2, <3>3, <3>4, <3>5
  <2>3. QED
    BY <1>1, <1>6, <2>1, <2>2 DEF ListedOnce
<1>15. Apart'
  <2>1. SUFFICES ASSUME NEW h \in Heading
                 PROVE  /\ bound'[h] # None => Judgements(h)' = {}
                        /\ \A i, j \in Judgements(h)' : i = j
                        /\ Judgements(h)' # {} \/ bound'[h] # None => Reached(h)'
    BY <1>1 DEF Apart
  <2>2. CASE Judgements(h)' = Judgements(h)
    <3>1. Newly(h) => Judgements(h) = {} /\ Reached(h)
      BY DEF Walking, ListedOnce
    <3>2. QED
      BY <1>3, <2>2, <3>1 DEF Walking, Apart, Newly
  <2>3. CASE Judgements(h)' # Judgements(h)
    <3>1. Untouched(h) /\ ~Newly(h)
      BY <1>9, <2>3
    <3>2. Judgements(h) = {} /\ bound'[h] = None /\ Reached(h)
      BY <3>1 DEF Untouched, Newly
    <3>3. \A i \in Judgements(h)' : /\ i \in DOMAIN pending' \ DOMAIN pending /\ pending'[i].diagnostic \in D
                                    /\ Judges(pending'[i].diagnostic, h)
      BY <3>2, JudgementsGrow
    <3>4. \A i, j \in Judgements(h)' : pending'[i].diagnostic = pending'[j].diagnostic
      BY <3>3
    <3>5. \A i, j \in Judgements(h)' : i = j
      BY <3>3, <3>4 DEF Extended
    <3>6. QED
      BY <1>3, <3>2, <3>5
  <2>4. QED
    BY <2>2, <2>3
<1>16. \A h \in Heading : Reached(h) /\ (\A k \in DOMAIN agenda : k # 1 => \A g \in Listed(agenda[k]) : Parent(g) # Parent(h))
                            => Alone(h)'
  <2>1. SUFFICES ASSUME NEW h \in Heading, Reached(h),
                        \A k \in DOMAIN agenda : k # 1 => \A g \in Listed(agenda[k]) : Parent(g) # Parent(h),
                        NEW k \in DOMAIN agenda', NEW g \in Listed(agenda'[k]), Parent(g) = Parent(h)
                 PROVE  FALSE
    BY <1>1, <1>6 DEF Alone
  <2>2. QED
    BY <1>4, <1>10, <2>1
<1>17. \A h \in Heading : Reached(h) /\ Alone(h) => Alone(h)' /\ \A g \in Heading : Parent(g) = Parent(h) => ~Newly(g)
  BY <1>16 DEF Alone
<1>18. OrderedAlone'
  <2>1. ASSUME NEW k \in DOMAIN agenda', agenda'[k].do = "order", NEW h \in Lists!ToSet(agenda'[k].sections)
        PROVE  /\ Reached(h)' /\ Alone(h)'
               /\ \A g \in Heading : Parent(g) = Parent(h) /\ bound'[g] # None => g \in Lists!ToSet(agenda'[k].sections)
    <3>1. CASE k \in DOMAIN tasks /\ agenda'[k] = tasks[k]
      <4>1. /\ h \in Listed(agenda[1])
            /\ \A g \in Heading : Newly(g) => g \in Lists!ToSet(agenda'[k].sections)
        BY <2>1, <3>1 DEF BindingTasks
      <4>2. h \in Heading /\ Reached(h) /\ \A g \in Heading : Parent(g) = Parent(h) => bound[g] = None
        BY <4>1, ListedIsSound DEF Walking, ListedOnce
      <4>3. \A l \in DOMAIN agenda : l # 1 => \A g \in Listed(agenda[l]) : Parent(g) # Parent(h)
        BY <4>1 DEF Walking, ListedOnce
      <4>4. QED
        BY <1>3, <1>16, <4>1, <4>2, <4>3 DEF Newly
    <3>2. CASE e(k) \in DOMAIN agenda /\ e(k) # 1 /\ agenda'[k] = agenda[e(k)]
      <4>1. agenda[e(k)].do = "order" /\ h \in Lists!ToSet(agenda[e(k)].sections)
        BY <2>1, <3>2
      <4>2. h \in Heading
        BY <3>2, <4>1, OrderedIsSound DEF Walking
      <4>3. /\ Reached(h) /\ Alone(h)
            /\ \A g \in Heading : Parent(g) = Parent(h) /\ bound[g] # None => g \in Lists!ToSet(agenda'[k].sections)
        BY <3>2, <4>1 DEF Walking, OrderedAlone
      <4>4. QED
        BY <1>3, <1>17, <4>2, <4>3 DEF Newly
    <3>3. QED
      BY <1>4, <3>1, <3>2
  <2>2. \A s : Lists!ToSet(s)' = Lists!ToSet(s)
    BY DEF Lists!ToSet
  <2>3. QED
    BY <1>1, <2>1, <2>2 DEF OrderedAlone
<1>19. ViolatedAlone'
  <2>1. ASSUME NEW i \in DOMAIN pending', NEW h \in Heading, OrderViolation(pending'[i].diagnostic, h)
        PROVE  /\ bound'[h] # None /\ Alone(h)'
               /\ \A g \in Heading : Parent(g) = Parent(h) /\ bound'[g] = bound'[h] => text[g].value # Unparsable
    <3>1. i \in DOMAIN pending /\ OrderViolation(pending[i].diagnostic, h)
      BY <2>1 DEF Extended
    <3>2. /\ bound[h] # None /\ Alone(h)
          /\ \A g \in Heading : Parent(g) = Parent(h) /\ bound[g] = bound[h] => text[g].value # Unparsable
      BY <3>1 DEF ViolatedAlone, Walking
    <3>3. Reached(h)
      BY <3>2 DEF Walking, Apart
    <3>4. QED
      BY <1>17, <3>2, <3>3 DEF Newly
  <2>2. \A d, h : OrderViolation(d, h)' = OrderViolation(d, h)
    BY DEF OrderViolation
  <2>3. QED
    BY <1>1, <2>1, <2>2 DEF ViolatedAlone
<1>20. Typed' /\ Shaped'
  <2>1. captured' \in [Heading -> {"unevaluated", "valid", "invalid"}] /\ DOMAIN bound' = DOMAIN bound
    BY <1>1 DEF Walking, Shaped
  <2>2. QED
    BY <1>2, <2>1, ShapeStays DEF Walking
<1>21. EvaluatedOfBound'
  BY <1>1, <1>2 DEF Walking, EvaluatedOfBound, Growing
<1>22. QED
  BY <1>8, <1>11, <1>14, <1>15, <1>18, <1>19, <1>20, <1>21 DEF Walking

(* Where each element of a joined sequence is from.                         *)
JoinOf(s, t, j) ==
    /\ Len(j) = Len(s) + Len(t)
    /\ \A i \in 1 .. Len(s) : j[i] = s[i]
    /\ \A i \in 1 .. Len(t) : j[Len(s) + i] = t[i]

(* A joined sequence has the elements of its two parts.                     *)
LEMMA JoinedFacts ==
    ASSUME NEW T, NEW s \in Seq(T), NEW t \in Seq(T)
    PROVE  Joined(s, t) \in Seq(T) /\ JoinOf(s, t, Joined(s, t))
BY DEF Joined, JoinOf

(* Tuples join to tuples.                                                   *)
LEMMA TuplesJoin ==
    ASSUME NEW a, NEW b, NEW c, NEW d
    PROVE  <<a>> \o <<b, c>> = <<a, b, c>> /\ <<a, b>> \o <<c, d>> = <<a, b, c, d>>
<1> DEFINE T == {a, b, c, d}
<1>1. ASSUME NEW s, NEW t, NEW j, s = <<a>>, t = <<b, c>>, j = Joined(s, t) PROVE j = <<a, b, c>>
  <2>1. s \in Seq(T) /\ t \in Seq(T) /\ Len(s) = 1 /\ Len(t) = 2 /\ s[1] = a /\ t[1] = b /\ t[2] = c
    BY <1>1
  <2>2. j \in Seq(T) /\ JoinOf(s, t, j)
    BY <1>1, <2>1, JoinedFacts
  <2>3. Len(j) = 3 /\ j[1] = a /\ j[2] = b /\ j[3] = c
    <3>1. Len(j) = 1 + 2 /\ (\A i \in 1 .. 1 : j[i] = s[i]) /\ \A i \in 1 .. 2 : j[1 + i] = t[i]
      BY <2>1, <2>2 DEF JoinOf
    <3>2. j[1] = s[1] /\ j[1 + 1] = t[1] /\ j[1 + 2] = t[2]
      BY <3>1
    <3>3. QED
      BY <2>1, <3>1, <3>2
  <2>4. QED
    BY <2>2, <2>3
<1>2. ASSUME NEW s, NEW t, NEW j, s = <<a, b>>, t = <<c, d>>, j = Joined(s, t) PROVE j = <<a, b, c, d>>
  <2>1. s \in Seq(T) /\ t \in Seq(T) /\ Len(s) = 2 /\ Len(t) = 2 /\ s[1] = a /\ s[2] = b /\ t[1] = c /\ t[2] = d
    BY <1>2
  <2>2. j \in Seq(T) /\ JoinOf(s, t, j)
    BY <1>2, <2>1, JoinedFacts
  <2>3. Len(j) = 4 /\ j[1] = a /\ j[2] = b /\ j[3] = c /\ j[4] = d
    <3>1. Len(j) = 2 + 2 /\ (\A i \in 1 .. 2 : j[i] = s[i]) /\ \A i \in 1 .. 2 : j[2 + i] = t[i]
      BY <2>1, <2>2 DEF JoinOf
    <3>2. j[1] = s[1] /\ j[2] = s[2] /\ j[2 + 1] = t[1] /\ j[2 + 2] = t[2]
      BY <3>1
    <3>3. QED
      BY <2>1, <3>1, <3>2
  <2>4. QED
    BY <2>2, <2>3
<1>3. Joined(<<a>>, <<b, c>>) = <<a, b, c>> /\ Joined(<<a, b>>, <<c, d>>) = <<a, b, c, d>>
  BY <1>1, <1>2
<1>4. QED
  BY <1>3 DEF Joined

(* A pair is known by its elements.                                         *)
LEMMA PairJoins ==
    ASSUME NEW a, NEW b, NEW t, t = <<t[1], t[2]>>
    PROVE  <<a, b>> \o t = <<a, b, t[1], t[2]>>
<1>1. PICK x, y : t = <<x, y>>
  OBVIOUS
<1>2. t[1] = x /\ t[2] = y
  BY <1>1
<1>3. <<a, b>> \o <<x, y>> = <<a, b, x, y>>
  BY TuplesJoin
<1>4. QED
  BY <1>1, <1>2, <1>3

(* The scope of the root or of a title, with no title in it: what a title   *)
(* has, or what there is without one.                                       *)
RootOf(of, s) ==
    /\ of = 0 \/ (of \in Heading /\ level[of] = 1)
    /\ \A g \in Lists!ToSet(s) : g \in Heading /\ Parent(g) \in {0, of} /\ (of = 0 \/ level[g] # 1)
(* A task for it; what is missing it says of `a`.                           *)
OfRoot(t, of, a, s) ==
    \/ t.do = "content" /\ t.of = of /\ t.absence = a
    \/ t.do = "scope" /\ t.sections = s /\ t.parent = a
    \/ t.do = "constraints" /\ t.current.sections = s /\ t.parent = a
    \/ t.do = "refuse_titles"
(* Of itself, or of the document.                                           *)
Voices(of) == {<<>>, <<of>>}

(* What is listed at the root.                                              *)
RootTask(t) ==
    /\ FitsTask(t) /\ t.do \in {"content", "refuse_titles", "scope", "constraints"}
    /\ t.do = "refuse_titles" => schema.shape = "untitled"
    /\ \A h \in Listed(t) : h \in Heading /\ Reached(h) /\ (schema.shape = "outline" \/ level[h] # 1)

(* The scope of the root and its constraints.                               *)
LEMMA RootTasksFacts ==
    ASSUME Typed, NEW s, SoundSections(s), NEW a \in Anchor,
           \A h \in Lists!ToSet(s) : Reached(h) /\ (schema.shape = "outline" \/ level[h] # 1)
    PROVE  /\ RootTasks(s, a) = <<ScopeTask(s, schema.scope, <<>>, a),
                                  ConstraintsTask(BoundScope(s, schema.scope, <<>>), BoundScope(s, schema.scope, <<>>), a)>>
           /\ RootTask(RootTasks(s, a)[1]) /\ RootTask(RootTasks(s, a)[2])
           /\ RootTasks(s, a)[1].do = "scope" /\ RootTasks(s, a)[2].do = "constraints"
           /\ Listed(RootTasks(s, a)[1]) = Lists!ToSet(s)
           /\ \A of : OfRoot(RootTasks(s, a)[1], of, a, s) /\ OfRoot(RootTasks(s, a)[2], of, a, s)
<1> DEFINE x == ScopeTask(s, schema.scope, <<>>, a)
           r == BoundScope(s, schema.scope, <<>>)
           y == ConstraintsTask(r, r, a)
<1>1. RootTasks(s, a) = <<x, y>>
  BY DEF RootTasks
<1>2. x.do = "scope" /\ x.sections = s /\ x.scope = schema.scope /\ x.path = <<>> /\ x.parent = a
  BY DEF ScopeTask
<1>3. y.do = "constraints" /\ y.current = r /\ y.parent = a /\ r.sections = s /\ r.scope = schema.scope /\ r.path = <<>>
  BY DEF ConstraintsTask, BoundScope
<1> HIDE DEF x, y, r
<1>4. schema.scope \in Grammars \union {None} /\ <<>> \in Seq(Nat)
  BY DEF Typed
<1>5. FitsTask(x) /\ FitsTask(y)
  BY <1>2, <1>3, <1>4 DEF FitsTask
<1>6. Lists!ToSet(s) \subseteq Heading
  BY SeqIsSeq DEF SoundSections, Sound
<1>7. Listed(x) = Lists!ToSet(s) /\ Listed(y) = {}
  BY <1>2, <1>3 DEF Listed
<1>8. RootTask(x) /\ RootTask(y)
  BY <1>2, <1>3, <1>5, <1>6, <1>7 DEF RootTask
<1>9. \A of : OfRoot(x, of, a, s) /\ OfRoot(y, of, a, s)
  BY <1>2, <1>3 DEF OfRoot
<1>10. QED
  BY <1>1, <1>2, <1>3, <1>7, <1>8, <1>9 DEF x, y, r

(* The content before the first heading, or that of a title.                *)
LEMMA FirstContent ==
    ASSUME Typed, NEW h \in {0} \union Sound, NEW a \in Anchor
    PROVE  /\ RootTask(ContentTask(h, schema.content, <<>>, a)) /\ ContentTask(h, schema.content, <<>>, a).do = "content"
           /\ \A s : OfRoot(ContentTask(h, schema.content, <<>>, a), h, a, s)
<1> DEFINE t == ContentTask(h, schema.content, <<>>, a)
<1>1. t.do = "content" /\ t.of = h /\ t.rules = schema.content /\ t.path = <<>> /\ t.absence = a
  BY DEF ContentTask
<1> HIDE DEF t
<1>2. schema.content \in Contents \union {None} /\ <<>> \in Seq(Nat)
  BY DEF Typed
<1>3. QED
  BY <1>1, <1>2 DEF RootTask, FitsTask, Listed, OfRoot, t

(* The root is entered once, with nothing bound and nobody judged.          *)
LEMMA RootIsLast ==
    ASSUME Walking, Doing("root")
    PROVE  Unopened /\ agenda = <<Task("root")>> /\ IsSeq(agenda) /\ IsSeq(pending)
<1>1. agenda[1].do = "root" /\ 1 \in DOMAIN agenda /\ IsSeq(agenda) /\ IsSeq(pending)
  BY NowFits
<1>2. Unopened
  BY <1>1 DEF Walking, Opened, Opening
<1>3. QED
  BY <1>1, <1>2 DEF Unopened, Task

(* Whatever the shape of the schema, entering the root keeps the invariant. *)
LEMMA RootStep ==
    ASSUME Walking, Doing("root"), UNCHANGED <<input, bound, captured, outcome>>,
           NEW D, Extended(D), \A d \in D : Placed(d) /\ \A h : ~OrderViolation(d, h),
           \A d \in D, h \in Heading : Judges(d, h) => schema.shape = "titled" /\ level[h] = 1,
           \A d, e \in D, h \in Heading : Judges(d, h) /\ Judges(e, h) => d = e,
           NEW tasks, tasks \in Seq(Lists!ToSet(tasks)), Continue(tasks),
           \A k \in DOMAIN tasks : RootTask(tasks[k]),
           \A k, l \in DOMAIN tasks : tasks[k].do = "refuse_titles" /\ tasks[l].do = "refuse_titles" => k = l,
           \A k, l \in DOMAIN tasks : \A g \in Listed(tasks[k]), h \in Listed(tasks[l]) : Parent(g) = Parent(h) => k = l
    PROVE  Walking'
<1>1. /\ Heading' = Heading /\ \A h : Parent(h)' = Parent(h)
      /\ level' = level /\ schema' = schema /\ text' = text /\ allowSkipped' = allowSkipped
      /\ captured' = captured /\ bound' = bound
  BY InputStays DEF input
<1>2. Growing
  BY <1>1 DEF Growing
<1>3. \A h \in Heading : Reached(h) => Reached(h)'
  BY <1>2, ReachedStays DEF Walking
<1>4. Unopened /\ agenda = <<Task("root")>> /\ IsSeq(agenda) /\ IsSeq(pending)
  BY RootIsLast
<1>5. Continued(tasks)
  BY <1>4, ContinueMoves
<1>6. \A k \in DOMAIN agenda' : k \in DOMAIN tasks /\ agenda'[k] = tasks[k]
  BY <1>4, <1>5 DEF Continued
<1>7. \A t : Listed(t)' = Listed(t)
  BY DEF Listed
<1>8. \A h \in Heading : bound[h] = None /\ Judgements(h) = {}
  BY <1>4 DEF Unopened, Fresh
<1>9. \A h \in Heading : Judgements(h)' # {} => schema.shape = "titled" /\ level[h] = 1
  <2>1. SUFFICES ASSUME NEW h \in Heading, Judgements(h)' # {} PROVE schema.shape = "titled" /\ level[h] = 1
    OBVIOUS
  <2>2. QED
    BY <1>8, <2>1, JudgementsGrow
<1>10. Opened'
  <2>1. \A k \in DOMAIN agenda' : agenda'[k].do \notin Opening
    BY <1>6 DEF RootTask, Opening
  <2>2. QED
    BY <2>1 DEF Opened, Opening
<1>11. Refusing'
  <2>1. \A k \in DOMAIN agenda' : agenda'[k].do = "refuse_titles" => schema.shape = "untitled"
    BY <1>6 DEF RootTask
  <2>2. \A k, l \in DOMAIN agenda' : agenda'[k].do = "refuse_titles" /\ agenda'[l].do = "refuse_titles" => k = l
    BY <1>6
  <2>3. schema.shape = "untitled" => \A h \in Heading : Judgements(h)' = {}
    BY <1>9
  <2>4. QED
    BY <1>1, <1>8, <2>1, <2>2, <2>3 DEF Refusing
<1>12. ListedOnce'
  <2>1. ASSUME NEW k \in DOMAIN agenda', NEW h \in Listed(agenda'[k])
        PROVE  /\ Reached(h)' /\ Judgements(h)' = {} /\ (schema.shape = "outline" \/ level[h] # 1)
               /\ \A g \in Heading : Parent(g) = Parent(h) => bound[g] = None
    <3>1. h \in Heading /\ Reached(h) /\ (schema.shape = "outline" \/ level[h] # 1)
      BY <1>6, <2>1 DEF RootTask
    <3>2. QED
      BY <1>3, <1>8, <1>9, <3>1
  <2>2. \A k, l \in DOMAIN agenda' : \A g \in Listed(agenda'[k]), h \in Listed(agenda'[l]) : Parent(g) = Parent(h) => k = l
    BY <1>6
  <2>3. QED
    BY <1>1, <1>7, <2>1, <2>2 DEF ListedOnce
<1>13. Apart'
  <2>1. SUFFICES ASSUME NEW h \in Heading
                 PROVE  /\ \A i, j \in Judgements(h)' : i = j
                        /\ Judgements(h)' # {} => Reached(h)'
    BY <1>1, <1>8 DEF Apart
  <2>2. \A i \in Judgements(h)' : /\ i \in DOMAIN pending' \ DOMAIN pending /\ pending'[i].diagnostic \in D
                                  /\ Judges(pending'[i].diagnostic, h)
    BY <1>8, JudgementsGrow
  <2>3. \A i, j \in Judgements(h)' : pending'[i].diagnostic = pending'[j].diagnostic
    BY <2>2
  <2>4. \A i, j \in Judgements(h)' : i = j
    BY <2>2, <2>3 DEF Extended
  <2>5. level[h] = 1 => Reached(h)
    BY ParentFacts DEF Reached, Walking
  <2>6. QED
    BY <1>3, <1>9, <2>4, <2>5
<1>14. OrderedAlone'
  BY <1>6 DEF OrderedAlone, RootTask
<1>15. ViolatedAlone'
  <2>1. ASSUME NEW i \in DOMAIN pending', NEW h \in Heading, OrderViolation(pending'[i].diagnostic, h) PROVE FALSE
    <3>1. i \in DOMAIN pending /\ OrderViolation(pending[i].diagnostic, h)
      BY <2>1 DEF Extended
    <3>2. QED
      BY <1>8, <3>1 DEF ViolatedAlone, Walking
  <2>2. \A d, h : OrderViolation(d, h)' = OrderViolation(d, h)
    BY DEF OrderViolation
  <2>3. QED
    BY <1>1, <2>1, <2>2 DEF ViolatedAlone
<1>16. Typed' /\ Shaped'
  <2>1. captured' \in [Heading -> {"unevaluated", "valid", "invalid"}] /\ DOMAIN bound' = DOMAIN bound
    BY <1>1 DEF Walking, Shaped
  <2>2. \A t \in Lists!ToSet(tasks) : FitsTask(t)'
    BY <1>2, FitsStays DEF RootTask, Lists!ToSet
  <2>3. QED
    BY <1>2, <1>5, <2>1, <2>2, ShapeStays DEF Walking
<1>17. EvaluatedOfBound'
  BY EvaluatedStays
<1>18. QED
  BY <1>10, <1>11, <1>12, <1>13, <1>14, <1>15, <1>16, <1>17 DEF Walking

(* What the root admits is within reach.                                    *)
LEMMA AdmittedAreReached ==
    ASSUME Typed, NEW base, base = RootLevel, schema.shape = "outline" \/ base = 1
    PROVE  \A h \in Lists!ToSet(AdmittedAtRoot(base)) : Reached(h) /\ (schema.shape = "outline" \/ level[h] # 1)
<1>1. SUFFICES ASSUME NEW h \in Lists!ToSet(AdmittedAtRoot(base))
               PROVE  Reached(h) /\ (schema.shape = "outline" \/ level[h] # 1)
  OBVIOUS
<1>2. h \in Heading /\ Parent(h) = 0 /\ Admits(base, h)
  BY AdmittedAtRootFacts
<1>3. level[h] \in Nat
  BY <1>2, ParentFacts
<1>4. base = 1 => level[h] # 1
  BY <1>2, <1>3 DEF Admits
<1>5. QED
  BY <1>2, <1>4 DEF Reached

(* Neither the root nor a title is in a branch of a section of either.      *)
LEMMA RootParts ==
    ASSUME Typed, NEW of, NEW s, RootOf(of, s)
    PROVE  /\ \A g \in Lists!ToSet(s) :
                 /\ 0 \notin Branch(g) /\ of \notin Branch(g)
                 /\ of # 0 => \A h \in Branch(g) : level[h] # 1
           /\ Parted(s, <<>>) /\ Parted(s, <<of>>)
<1>1. /\ of = 0 \/ (of \in Heading /\ level[of] = 1)
      /\ \A g \in Lists!ToSet(s) : g \in Heading /\ Parent(g) \in {0, of} /\ (of = 0 \/ level[g] # 1)
  BY DEF RootOf
<1>2. \A g \in Lists!ToSet(s) : 0 \notin Branch(g)
  BY <1>1, ParentFacts, BranchFacts
<1>3. ASSUME NEW g \in Lists!ToSet(s), of # 0, NEW h \in Branch(g) PROVE level[h] # 1
  <2>1. g \in Heading /\ level[g] # 1 /\ level[g] \in Nat \ {0}
    BY <1>1, <1>3, ParentFacts
  <2>2. h = g \/ (h \in Heading /\ level[h] > level[g] /\ level[h] \in Nat)
    BY <1>3, <2>1, BranchFacts, ParentFacts
  <2>3. QED
    BY <2>1, <2>2
<1>4. \A g \in Lists!ToSet(s) : of \notin Branch(g)
  BY <1>1, <1>2, <1>3
<1>5. \A g, h \in Lists!ToSet(s) : g # h => Branch(g) \cap Branch(h) = {}
  BY <1>1, <1>2, <1>4, BranchesPart
<1>6. \A p : <<>> # <<p>> /\ (<<of>> = <<p>> => of = p)
  OBVIOUS
<1>7. QED
  BY <1>2, <1>3, <1>4, <1>5, <1>6 DEF Parted

(* What its tasks say is of the root or the title, or within its sections.  *)
LEMMA RootSays ==
    ASSUME Typed, NEW of, NEW s, RootOf(of, s), NEW a, a \in Voices(of), NEW t, OfRoot(t, of, a, s)
    PROVE  /\ Branching(t)
           /\ \A d : Says(t, d) => /\ OfNodes(d) \/ d.id[2] = "constraint"
                                   /\ d.at = a \/ (d.at # <<>> /\ d.at[1] = of) \/ Within(s, d)
                                   /\ d.id = <<"too-many", "section">> => Within(s, d)
<1>1. Branching(t)
  BY RootParts DEF Branching, OfRoot, Voices
<1>2. ASSUME NEW d, Says(t, d)
      PROVE  /\ OfNodes(d) \/ d.id[2] = "constraint"
             /\ d.at = a \/ (d.at # <<>> /\ d.at[1] = of) \/ Within(s, d)
             /\ d.id = <<"too-many", "section">> => Within(s, d)
  <2>1. CASE t.do = "content"
    <3>1. t.of = of /\ t.absence = a
      BY <2>1 DEF OfRoot
    <3>2. d.id[2] \in {"block", "item"} /\ (d.at = a \/ (d.at # <<>> /\ d.at[1] = of))
      BY <1>2, <2>1, <3>1 DEF Says
    <3>3. QED
      BY <3>2 DEF OfNodes
  <2>2. CASE t.do = "scope"
    <3>1. t.sections = s /\ t.parent = a
      BY <2>2 DEF OfRoot
    <3>2. (Lacks(d) /\ d.at = a) \/ (OfNodes(d) /\ Within(s, d))
      BY <1>2, <2>2, <3>1 DEF Says
    <3>3. Lacks(d) => OfNodes(d) /\ d.id # <<"too-many", "section">>
      BY DEF Lacks, OfNodes, OfSections
    <3>4. QED
      BY <3>2, <3>3
  <2>3. CASE t.do = "constraints"
    <3>1. t.current.sections = s /\ t.parent = a
      BY <2>3 DEF OfRoot
    <3>2. d.id[2] = "constraint" /\ (d.at = a \/ Within(s, d))
      BY <1>2, <2>3, <3>1 DEF Says
    <3>3. QED
      BY <3>2
  <2>4. CASE t.do = "refuse_titles"
    BY <1>2, <2>4 DEF Says
  <2>5. QED
    BY <2>1, <2>2, <2>3, <2>4 DEF OfRoot
<1>3. QED
  BY <1>1, <1>2

(* Its tasks say different things,                                          *)
LEMMA RootTasksPart ==
    ASSUME Typed, NEW of, NEW s, RootOf(of, s), NEW a, a \in Voices(of),
           NEW t, OfRoot(t, of, a, s), NEW u, OfRoot(u, of, a, s), NEW d, Says(t, d), Says(u, d)
    PROVE  t.do = u.do
<1>1. ASSUME NEW x, OfRoot(x, of, a, s), Says(x, d)
      PROVE  /\ x.do \in {"content", "scope", "constraints"}
             /\ x.do = "content" => d.id[2] \in {"block", "item"} /\ ~Within(s, d)
             /\ x.do = "scope" => d.id[2] = "section" \/ (d.id[2] \in {"block", "item"} /\ Within(s, d))
             /\ x.do = "constraints" => d.id[2] = "constraint"
  <2>1. x.do \in {"content", "scope", "constraints"}
    BY <1>1 DEF OfRoot, Says
  <2>2. CASE x.do = "content"
    <3>1. x.of = of /\ x.absence = a
      BY <1>1, <2>2 DEF OfRoot
    <3>2. d.id[2] \in {"block", "item"} /\ (d.at = a \/ (d.at # <<>> /\ d.at[1] = of))
      BY <1>1, <2>2, <3>1 DEF Says
    <3>3. d.at = <<>> \/ d.at[1] = of
      BY <3>2 DEF Voices
    <3>4. ~Within(s, d)
      BY <3>3, RootParts DEF Within
    <3>5. QED
      BY <2>2, <3>2, <3>4
  <2>3. CASE x.do = "scope"
    <3>1. x.sections = s
      BY <1>1, <2>3 DEF OfRoot
    <3>2. Lacks(d) \/ (OfNodes(d) /\ Within(s, d))
      BY <1>1, <2>3, <3>1 DEF Says
    <3>3. QED
      BY <2>3, <3>2 DEF Lacks, OfNodes, OfSections
  <2>4. CASE x.do = "constraints"
    BY <1>1, <2>4 DEF Says
  <2>5. QED
    BY <2>1, <2>2, <2>3, <2>4
<1>2. QED
  BY <1>1

(* and so do those of two titles.                                           *)
LEMMA TitlesPart ==
    ASSUME Typed, NEW f, NEW r, RootOf(f, r), NEW g, NEW s, RootOf(g, s), f # 0, g # 0, f # g,
           \A x \in Lists!ToSet(r), y \in Lists!ToSet(s) : Parent(x) # Parent(y),
           NEW t, OfRoot(t, f, <<f>>, r), NEW u, OfRoot(u, g, <<g>>, s), NEW d, Says(t, d), Says(u, d)
    PROVE  FALSE
<1>1. d.at # <<>> /\ (d.at[1] = f \/ Within(r, d)) /\ (d.at[1] = g \/ Within(s, d))
  <2>1. ASSUME NEW of, NEW q, RootOf(of, q), NEW a, a = <<of>>, NEW x, OfRoot(x, of, a, q), Says(x, d)
        PROVE  d.at = a \/ (d.at # <<>> /\ d.at[1] = of) \/ Within(q, d)
    <3>1. a \in Voices(of)
      BY <2>1 DEF Voices
    <3>2. QED
      BY <2>1, <3>1, RootSays
  <2>2. d.at = <<f>> \/ (d.at # <<>> /\ d.at[1] = f) \/ Within(r, d)
    BY <2>1
  <2>3. d.at = <<g>> \/ (d.at # <<>> /\ d.at[1] = g) \/ Within(s, d)
    BY <2>1
  <2>4. QED
    BY <2>2, <2>3 DEF Within
<1>2. /\ f \in Heading /\ level[f] = 1 /\ g \in Heading /\ level[g] = 1
      /\ \A x \in Lists!ToSet(r) : x \in Heading /\ Parent(x) \in {0, f}
      /\ \A y \in Lists!ToSet(s) : y \in Heading /\ Parent(y) \in {0, g}
  BY DEF RootOf
<1>3. /\ \A x \in Lists!ToSet(r) : 0 \notin Branch(x) /\ \A h \in Branch(x) : level[h] # 1
      /\ \A y \in Lists!ToSet(s) : 0 \notin Branch(y) /\ \A h \in Branch(y) : level[h] # 1
  BY RootParts
<1>4. d.at[1] # f /\ d.at[1] # g
  BY <1>1, <1>2, <1>3 DEF Within
<1>5. PICK x \in Lists!ToSet(r), y \in Lists!ToSet(s) : d.at[1] \in Branch(x) /\ d.at[1] \in Branch(y)
  BY <1>1, <1>4 DEF Within
<1>6. x # y /\ x \in Heading /\ y \in Heading /\ Parent(x) \notin Branch(y) /\ Parent(y) \notin Branch(x)
  BY <1>2, <1>3
<1>7. QED
  BY <1>5, <1>6, BranchesPart

(* The root leaves what it has to say to its tasks.                         *)
LEMMA RootVoices ==
    ASSUME Walking, Voicing, Doing("root"), Walking', UNCHANGED input,
           NEW tasks, tasks \in Seq(Lists!ToSet(tasks)), Continue(tasks),
           \A k \in DOMAIN tasks : \E of, s : RootOf(of, s) /\ \E a \in Voices(of) : OfRoot(tasks[k], of, a, s),
           \A k, l \in DOMAIN tasks : \A d : Says(tasks[k], d) /\ Says(tasks[l], d) => k = l,
           NEW D, Extended(D),
           \A d \in D : \/ \E h \in Heading : Judges(d, h)
                        \/ d.id[2] = "title"
                        \/ d.id = <<"too-many", "section">> /\ \A k \in DOMAIN tasks : ~Says(tasks[k], d)
    PROVE  Voicing'
<1>1. Typed /\ agenda # <<>> /\ IsSeq(agenda) /\ 1 \in DOMAIN agenda /\ agenda[1].do = "root"
  BY NowFits DEF Walking
<1>2. \A d : OfNodes(d) \/ d.id[2] \in {"constraint", "title"} => Says(agenda[1], d)
  BY <1>1 DEF Says
<1>3. \A k \in DOMAIN tasks : /\ Branching(tasks[k])
                              /\ \A d : Says(tasks[k], d) => OfNodes(d) \/ d.id[2] = "constraint"
  <2>1. SUFFICES ASSUME NEW k \in DOMAIN tasks
                 PROVE  /\ Branching(tasks[k])
                        /\ \A d : Says(tasks[k], d) => OfNodes(d) \/ d.id[2] = "constraint"
    OBVIOUS
  <2>2. PICK of, s : RootOf(of, s) /\ \E a \in Voices(of) : OfRoot(tasks[k], of, a, s)
    OBVIOUS
  <2>3. PICK a \in Voices(of) : OfRoot(tasks[k], of, a, s)
    BY <2>2
  <2>4. QED
    BY <1>1, <2>2, <2>3, RootSays
<1>4. \A d : OfNodes(d) => d.id[2] # "title"
  BY DEF OfNodes, OfSections
<1>5. \A d : d.id = <<"too-many", "section">> => OfNodes(d)
  BY DEF OfNodes, OfSections
<1>6. \A d \in D : (\E h \in Heading : Judges(d, h)) \/ Says(agenda[1], d)
  BY <1>2, <1>5
<1>7. \A t, d, h : Judges(d, h) => ~Says(t, d)
  BY NobodySays DEF Judges
<1>8. \A k \in DOMAIN tasks : \A d : Says(tasks[k], d) => Says(agenda[1], d) /\ d \notin D
  BY <1>2, <1>3, <1>4, <1>7
<1>9. Continued(tasks)
  BY <1>1, ContinueMoves
<1>10. QED
  BY <1>1, <1>3, <1>6, <1>8, <1>9, VoicingStep

(* Without a title the root has one scope, with a task of each kind.        *)
LEMMA RootAlone ==
    ASSUME Typed, NEW s, \A g \in Lists!ToSet(s) : g \in Heading /\ Parent(g) = 0,
           NEW tasks, \A k \in DOMAIN tasks : OfRoot(tasks[k], 0, <<>>, s),
           \A k, l \in DOMAIN tasks : tasks[k].do = tasks[l].do => k = l
    PROVE  /\ \A k \in DOMAIN tasks : \E of, r : RootOf(of, r) /\ \E a \in Voices(of) : OfRoot(tasks[k], of, a, r)
           /\ \A k, l \in DOMAIN tasks : \A d : Says(tasks[k], d) /\ Says(tasks[l], d) => k = l
<1>1. RootOf(0, s) /\ <<>> \in Voices(0)
  BY DEF RootOf, Voices
<1>2. \A k \in DOMAIN tasks : \E of, r : RootOf(of, r) /\ \E a \in Voices(of) : OfRoot(tasks[k], of, a, r)
  BY <1>1
<1>3. \A k, l \in DOMAIN tasks : \A d : Says(tasks[k], d) /\ Says(tasks[l], d) => tasks[k].do = tasks[l].do
  BY <1>1, RootTasksPart
<1>4. QED
  BY <1>2, <1>3

(* An outline has its scope at the root;                                    *)
LEMMA OutlineKeeps ==
    ASSUME Walking, EnterOutline
    PROVE  Walking' /\ (Voicing => Voicing')
<1> DEFINE s == AdmittedAtRoot(0)  c == ContentTask(0, schema.content, <<>>, <<>>)
           r == RootTasks(s, <<>>)  tasks == <<c, r[1], r[2]>>
<1>1. /\ Doing("root") /\ schema.shape = "outline" /\ Continue(<<c>> \o r)
      /\ UNCHANGED <<input, pending, bound, captured, values, outcome>>
  BY DEF EnterOutline
<1>2. Typed /\ RootLevel = 0 /\ <<>> \in Anchor
  BY <1>1 DEF Walking, RootLevel, Anchor
<1>3. RootTask(c) /\ c.do = "content" /\ OfRoot(c, 0, <<>>, s)
  BY <1>2, FirstContent
<1>4. /\ SoundSections(s) /\ \A h \in Lists!ToSet(s) : Reached(h) /\ (schema.shape = "outline" \/ level[h] # 1)
      /\ \A g \in Lists!ToSet(s) : g \in Heading /\ Parent(g) = 0
  BY <1>1, <1>2, AdmittedAtRootFacts, AdmittedAreReached
<1> HIDE DEF s, c
<1>5. /\ r = <<r[1], r[2]>> /\ RootTask(r[1]) /\ RootTask(r[2]) /\ r[1].do = "scope" /\ r[2].do = "constraints"
      /\ OfRoot(r[1], 0, <<>>, s) /\ OfRoot(r[2], 0, <<>>, s)
  BY <1>2, <1>4, RootTasksFacts
<1> HIDE DEF r
<1>6. Continue(tasks)
  BY <1>1, <1>5, TuplesJoin
<1>7. /\ DOMAIN tasks = 1 .. 3 /\ tasks \in Seq(Lists!ToSet(tasks))
      /\ tasks[1] = c /\ tasks[2] = r[1] /\ tasks[3] = r[2]
  BY DEF Lists!ToSet
<1> HIDE DEF tasks
<1>8. \A k \in DOMAIN tasks : RootTask(tasks[k]) /\ tasks[k].do # "refuse_titles"
  BY <1>3, <1>5, <1>7
<1>9. \A k \in DOMAIN tasks : Listed(tasks[k]) # {} => k = 2
  BY <1>3, <1>5, <1>7 DEF Listed
<1>10. Extended({})
  BY <1>1, RootIsLast, SilenceExtends
<1>11. Walking'
  BY <1>1, <1>6, <1>7, <1>8, <1>9, <1>10, RootStep
<1>12. /\ \A k \in DOMAIN tasks : OfRoot(tasks[k], 0, <<>>, s)
       /\ \A k, l \in DOMAIN tasks : tasks[k].do = tasks[l].do => k = l
  BY <1>3, <1>5, <1>7
<1>13. Voicing => Voicing'
  BY <1>1, <1>2, <1>4, <1>6, <1>7, <1>10, <1>11, <1>12, RootAlone, RootVoices
<1>14. QED
  BY <1>11, <1>13

(* without a title the sections are a level below, and titles are to be     *)
(* refused;                                                                 *)
LEMMA UntitledKeeps ==
    ASSUME Walking, EnterUntitled
    PROVE  Walking' /\ (Voicing => Voicing')
<1> DEFINE s == AdmittedAtRoot(1)  c == ContentTask(0, schema.content, <<>>, <<>>)  f == Task("refuse_titles")
           r == RootTasks(s, <<>>)  tasks == <<c, f, r[1], r[2]>>
<1>1. /\ Doing("root") /\ schema.shape = "untitled" /\ Continue(<<c, f>> \o r)
      /\ UNCHANGED <<input, pending, bound, captured, values, outcome>>
  BY DEF EnterUntitled
<1>2. Typed /\ RootLevel = 1 /\ <<>> \in Anchor
  BY <1>1 DEF Walking, RootLevel, Anchor
<1>3. RootTask(c) /\ c.do = "content" /\ OfRoot(c, 0, <<>>, s)
  BY <1>2, FirstContent
<1>4. f.do = "refuse_titles" /\ RootTask(f) /\ OfRoot(f, 0, <<>>, s)
  <2>1. f.do = "refuse_titles"
    BY DEF Task
  <2> HIDE DEF f
  <2>2. QED
    BY <1>1, <2>1 DEF RootTask, FitsTask, Listed, OfRoot
<1>5. /\ SoundSections(s) /\ \A h \in Lists!ToSet(s) : Reached(h) /\ (schema.shape = "outline" \/ level[h] # 1)
      /\ \A g \in Lists!ToSet(s) : g \in Heading /\ Parent(g) = 0
  BY <1>2, AdmittedAtRootFacts, AdmittedAreReached
<1> HIDE DEF s, c, f
<1>6. /\ r = <<r[1], r[2]>> /\ RootTask(r[1]) /\ RootTask(r[2]) /\ r[1].do = "scope" /\ r[2].do = "constraints"
      /\ OfRoot(r[1], 0, <<>>, s) /\ OfRoot(r[2], 0, <<>>, s)
  BY <1>2, <1>5, RootTasksFacts
<1> HIDE DEF r
<1>7. Continue(tasks)
  <2>1. <<c, f>> \o r = tasks
    BY <1>6, PairJoins
  <2> HIDE DEF tasks
  <2>2. QED
    BY <1>1, <2>1
<1>8. /\ DOMAIN tasks = 1 .. 4 /\ tasks \in Seq(Lists!ToSet(tasks))
      /\ tasks[1] = c /\ tasks[2] = f /\ tasks[3] = r[1] /\ tasks[4] = r[2]
  BY DEF Lists!ToSet
<1> HIDE DEF tasks
<1>9. \A k \in DOMAIN tasks : RootTask(tasks[k]) /\ (tasks[k].do = "refuse_titles" => k = 2)
  BY <1>3, <1>4, <1>6, <1>8
<1>10. \A k \in DOMAIN tasks : Listed(tasks[k]) # {} => k = 3
  BY <1>3, <1>4, <1>6, <1>8 DEF Listed
<1>11. Extended({})
  BY <1>1, RootIsLast, SilenceExtends
<1>12. Walking'
  BY <1>1, <1>7, <1>8, <1>9, <1>10, <1>11, RootStep
<1>13. /\ \A k \in DOMAIN tasks : OfRoot(tasks[k], 0, <<>>, s)
       /\ \A k, l \in DOMAIN tasks : tasks[k].do = tasks[l].do => k = l
  BY <1>3, <1>4, <1>6, <1>8
<1>14. Voicing => Voicing'
  BY <1>1, <1>2, <1>5, <1>7, <1>8, <1>11, <1>12, <1>13, RootAlone, RootVoices
<1>15. QED
  BY <1>12, <1>14

(* with a title, there may be none, and the sections are a level below.     *)
LEMMA MissKeeps ==
    ASSUME Walking, MissTitle
    PROVE  Walking' /\ (Voicing => Voicing')
<1> DEFINE s == AdmittedAtRoot(1)  tasks == RootTasks(s, <<>>)
           said == Diagnostic("missing", "title", <<>>, By("title", <<>>))
<1>1. /\ Doing("root") /\ schema.shape = "titled" /\ ~HasTitle /\ Emit({said}) /\ Continue(tasks)
      /\ UNCHANGED <<input, bound, captured, values, outcome>>
  BY DEF MissTitle
<1>2. Typed /\ RootLevel = 1 /\ <<>> \in Anchor
  BY <1>1 DEF Walking, RootLevel, Anchor
<1>3. /\ SoundSections(s) /\ \A h \in Lists!ToSet(s) : Reached(h) /\ (schema.shape = "outline" \/ level[h] # 1)
      /\ \A g \in Lists!ToSet(s) : g \in Heading /\ Parent(g) = 0
  BY <1>2, AdmittedAtRootFacts, AdmittedAreReached
<1> HIDE DEF s
<1>4. /\ OfRoot(tasks[1], 0, <<>>, s) /\ OfRoot(tasks[2], 0, <<>>, s)
      /\ tasks = <<tasks[1], tasks[2]>> /\ RootTask(tasks[1]) /\ RootTask(tasks[2])
      /\ tasks[1].do = "scope" /\ tasks[2].do = "constraints"
  BY <1>2, <1>3, RootTasksFacts
<1> HIDE DEF tasks
<1>5. DOMAIN tasks = 1 .. 2 /\ tasks \in Seq(Lists!ToSet(tasks))
  <2>1. ASSUME NEW x, NEW y, tasks = <<x, y>> PROVE DOMAIN tasks = 1 .. 2 /\ tasks \in Seq(Lists!ToSet(tasks))
    BY <2>1 DEF Lists!ToSet
  <2>2. QED
    BY <1>4, <2>1
<1>6. \A k \in DOMAIN tasks : RootTask(tasks[k]) /\ tasks[k].do # "refuse_titles"
  BY <1>4, <1>5
<1>7. \A k \in DOMAIN tasks : Listed(tasks[k]) # {} => k = 1
  BY <1>4, <1>5 DEF Listed
<1>8. Extended({said})
  BY <1>1, RootIsLast, EmitExtends, FS_Singleton
<1>9. said.at = <<>> /\ said.id = <<"missing", "title">>
  BY DEF Diagnostic
<1> HIDE DEF said
<1>10. Placed(said) /\ (\A h : ~OrderViolation(said, h)) /\ \A h : ~Judges(said, h)
  <2>1. Placed(said)
    BY <1>9 DEF Placed
  <2>2. (\A h : ~OrderViolation(said, h)) /\ said.id \notin Judging
    BY <1>9, OtherKinds
  <2>3. QED
    BY <2>1, <2>2 DEF Judges
<1>11. Walking'
  BY <1>1, <1>5, <1>6, <1>7, <1>8, <1>10, RootStep
<1>12. /\ \A k \in DOMAIN tasks : OfRoot(tasks[k], 0, <<>>, s)
       /\ \A k, l \in DOMAIN tasks : tasks[k].do = tasks[l].do => k = l
  BY <1>4, <1>5
<1>13. said.id[2] = "title"
  BY <1>9
<1>14. Voicing => Voicing'
  BY <1>1, <1>2, <1>3, <1>5, <1>8, <1>11, <1>12, <1>13, RootAlone, RootVoices
<1>15. QED
  BY <1>11, <1>14

(* titles are refused before the sections are bound, and none of them is    *)
(* bound.                                                                   *)
LEMMA RefuseKeeps ==
    ASSUME Walking, RefuseTitles
    PROVE  Walking' /\ (Voicing => Voicing')
<1> DEFINE S == {g \in Heading : level[g] = 1}
           f == [h \in S |-> Diagnostic("not-allowed", "section", <<h>>, By("title", <<>>))]
           D == {f[h] : h \in DOMAIN f}
<1>1. /\ Doing("refuse_titles") /\ Continue(<<>>)
      /\ UNCHANGED <<input, bound, captured, values, outcome>>
  BY DEF RefuseTitles
<1>2. /\ IsSeq(agenda) /\ IsSeq(pending) /\ agenda # <<>> /\ 1 \in DOMAIN agenda
      /\ agenda[1].do = "refuse_titles" /\ Opened
  <2>1. "refuse_titles" \notin Opening
    BY DEF Opening
  <2>2. QED
    BY <1>1, <2>1, NowFits
<1>3. schema.shape = "untitled" /\ \A k \in DOMAIN agenda : k # 1 => agenda[k].do # "refuse_titles"
  BY <1>2 DEF Walking, Refusing
<1>4. Emit(D)
  <2>1. Emit({Diagnostic("not-allowed", "section", <<h>>, By("title", <<>>)) : h \in S})
    BY DEF RefuseTitles
  <2> HIDE DEF S
  <2>2. {Diagnostic("not-allowed", "section", <<h>>, By("title", <<>>)) : h \in S} = D
    OBVIOUS
  <2>3. QED
    BY <2>1, <2>2
<1>5. IsFiniteSet(S)
  <2>1. S \in SUBSET Heading /\ Typed
    BY DEF Walking
  <2>2. QED
    BY <2>1, HeadingsAreFinite, FS_Subset
<1>6. DOMAIN f = S /\ \A h \in S : f[h].at = <<h>> /\ f[h].id = <<"not-allowed", "section">>
  BY DEF Diagnostic
<1> HIDE DEF f
<1>7. Extended(D)
  BY <1>2, <1>4, <1>5, <1>6, ValuesAreFinite, EmitExtends
<1>8. \A h \in S : h \in Heading /\ level[h] = 1 /\ Untouched(h) /\ ~Newly(h) /\ h \in Sound
  <2>1. SUFFICES ASSUME NEW h \in Heading, level[h] = 1 PROVE Untouched(h) /\ ~Newly(h) /\ h \in Sound
    OBVIOUS
  <2>2. bound[h] = None /\ Judgements(h) = {}
    BY <1>2, <1>3, <2>1 DEF Walking, Refusing
  <2>3. Parent(h) = 0
    BY <2>1, ParentFacts DEF Walking
  <2>4. Reached(h)
    BY <2>1, <2>3 DEF Reached
  <2>5. \A k \in DOMAIN agenda : h \notin Listed(agenda[k])
    BY <1>3, <2>1 DEF Walking, ListedOnce
  <2>6. h \in Sound
    BY <1>3, <2>1, <2>3 DEF Sound, Skips, RootLevel
  <2>7. bound' = bound
    BY <1>1
  <2>8. QED
    BY <1>3, <2>1, <2>2, <2>4, <2>5, <2>6, <2>7 DEF Untouched, Newly
<1> HIDE DEF S
<1>9. \A d \in D : Placed(d) /\ \A h : ~OrderViolation(d, h)
  <2>1. SUFFICES ASSUME NEW h \in S, NEW d, d = f[h] PROVE Placed(d) /\ \A g : ~OrderViolation(d, g)
    BY <1>6
  <2>2. <<h>> \in Anchor
    BY <1>8, AnchorsArePlaced
  <2>3. Placed(d)
    BY <1>6, <2>1, <2>2, AnchorsArePlaced
  <2>4. d.id = <<"not-allowed", "section">>
    BY <1>6, <2>1
  <2>5. QED
    BY <2>3, <2>4, OtherWords
<1>10. \A d \in D, h \in Heading : Judges(d, h) => h \in S /\ d = f[h]
  <2>1. SUFFICES ASSUME NEW g \in S, NEW h \in Heading, Judges(f[g], h) PROVE h = g
    BY <1>6
  <2>2. <<g>> = <<h>>
    BY <1>6, <2>1 DEF Judges
  <2>3. QED
    BY <2>2
<1>11. Continued(<<>>)
  BY <1>1, <1>2, NoTasks
<1>12. BindingTasks(<<>>) /\ \A t \in Lists!ToSet(<<>>) : FitsTask(t)'
  BY DEF BindingTasks, Lists!ToSet
<1>13. DOMAIN bound' = Heading /\ bound' = bound
  BY <1>1 DEF Walking, Shaped
<1> HIDE DEF D
<1>14. Walking'
  BY <1>1, <1>2, <1>7, <1>8, <1>9, <1>10, <1>11, <1>12, <1>13, BindingStep DEF Newly
<1>15. \A d \in D : \E h \in Heading : Judges(d, h)
  BY <1>6, <1>8 DEF D, Judges, Judging
<1>16. Voicing => Voicing'
  BY <1>1, <1>2, <1>7, <1>14, <1>15, LeafStep
<1>17. QED
  BY <1>14, <1>16

(* Sequences with no element in common join without repetition.             *)
LEMMA JoinDistinct ==
    ASSUME NEW T, NEW s \in Seq(T), NEW t \in Seq(T), Distinct(s), Distinct(t),
           Lists!ToSet(s) \cap Lists!ToSet(t) = {}
    PROVE  /\ s \o t \in Seq(T) /\ Distinct(s \o t)
           /\ Lists!ToSet(s \o t) = Lists!ToSet(s) \union Lists!ToSet(t)
<1> DEFINE j == Joined(s, t)  n == Len(s)  m == Len(t)
<1>1. /\ j \in Seq(T) /\ Len(j) = n + m
      /\ \A i \in 1 .. n : j[i] = s[i]
      /\ \A i \in 1 .. m : j[n + i] = t[i]
  <2>1. j \in Seq(T) /\ JoinOf(s, t, j)
    BY JoinedFacts
  <2> HIDE DEF j
  <2>2. QED
    BY <2>1 DEF JoinOf
<1>2. n \in Nat /\ m \in Nat /\ DOMAIN s = 1 .. n /\ DOMAIN t = 1 .. m
  OBVIOUS
<1> HIDE DEF j, n, m
<1>3. DOMAIN j = 1 .. n + m
  BY <1>1, <1>2
<1>4. \A i \in DOMAIN j : i \in 1 .. n \/ \E k \in 1 .. m : i = n + k
  <2>1. SUFFICES ASSUME NEW i \in DOMAIN j, i \notin 1 .. n PROVE i - n \in 1 .. m /\ i = n + (i - n)
    OBVIOUS
  <2>2. QED
    BY <1>2, <1>3, <2>1
<1>5. (\A i \in 1 .. n : i \in DOMAIN j) /\ \A k \in 1 .. m : n + k \in DOMAIN j
  BY <1>2, <1>3
<1>6. Lists!ToSet(j) = Lists!ToSet(s) \union Lists!ToSet(t)
  <2>1. ASSUME NEW i \in DOMAIN j PROVE j[i] \in Lists!ToSet(s) \union Lists!ToSet(t)
    BY <1>1, <1>2, <1>4, <2>1 DEF Lists!ToSet
  <2>2. ASSUME NEW i \in DOMAIN s PROVE s[i] \in Lists!ToSet(j)
    BY <1>1, <1>2, <1>5 DEF Lists!ToSet
  <2>3. ASSUME NEW i \in DOMAIN t PROVE t[i] \in Lists!ToSet(j)
    <3>1. n + i \in DOMAIN j /\ j[n + i] = t[i]
      BY <1>1, <1>2, <1>5
    <3>2. QED
      BY <3>1 DEF Lists!ToSet
  <2>4. QED
    BY <2>1, <2>2, <2>3 DEF Lists!ToSet
<1>7. ASSUME NEW i \in DOMAIN j, NEW k \in DOMAIN j, j[i] = j[k] PROVE i = k
  <2>1. CASE i \in 1 .. n /\ k \in 1 .. n
    BY <1>1, <1>2, <1>7, <2>1 DEF Distinct
  <2>2. CASE \E x, y \in 1 .. m : i = n + x /\ k = n + y
    <3>1. PICK x, y \in 1 .. m : i = n + x /\ k = n + y
      BY <2>2
    <3>2. t[x] = t[y]
      BY <1>1, <1>7, <3>1
    <3>3. QED
      BY <1>2, <3>1, <3>2 DEF Distinct
  <2>3. CASE \E x \in 1 .. n, y \in 1 .. m : j[x] = j[n + y]
    <3>1. PICK x \in 1 .. n, y \in 1 .. m : j[x] = j[n + y]
      BY <2>3
    <3>2. s[x] = t[y]
      BY <1>1, <3>1
    <3>3. s[x] \in Lists!ToSet(s) /\ t[y] \in Lists!ToSet(t)
      BY <1>2 DEF Lists!ToSet
    <3>4. QED
      BY <3>2, <3>3
  <2>4. QED
    BY <1>4, <1>7, <2>1, <2>2, <2>3
<1>8. QED
  BY <1>1, <1>6, <1>7 DEF j, Joined, Distinct

(* Every title has a scope of its own, and the first has the headings       *)
(* before it too.                                                           *)
LEMMA TitledKeeps ==
    ASSUME Walking, EnterTitled
    PROVE  Walking' /\ (Voicing => Voicing')
<1> DEFINE n == Len(Titles)
           own(i) == (IF i = 1 THEN Strays ELSE <<>>) \o ChildSections(Titles[i])
           c(i) == ContentTask(Titles[i], schema.content, <<>>, Voice(Titles[i]))
           r(i) == RootTasks(own(i), Voice(Titles[i]))
           ss == [i \in 1 .. n |-> VisitTitle(i)]
           tasks == Lists!FlattenSeq(ss)
           S == {g \in Lists!ToSet(Titles) : schema.title # None /\ text[g].name \notin schema.title}
           f == [h \in S |-> Diagnostic("not-allowed", "section", <<h>>, By("title", <<>>))]
           B == IF n > 1 THEN {Diagnostic("too-many", "section", <<Titles[2]>>, By("title", <<>>))} ELSE {}
           A == {f[h] : h \in DOMAIN f}
           D == A \union B
<1>1. /\ Doing("root") /\ schema.shape = "titled" /\ HasTitle
      /\ UNCHANGED <<input, bound, captured, values, outcome>>
  BY DEF EnterTitled
<1>2. Continue(tasks)
  BY DEF EnterTitled
<1>3. Emit(D)
  <2>1. Emit({Diagnostic("not-allowed", "section", <<h>>, By("title", <<>>)) : h \in S} \union B)
    BY DEF EnterTitled
  <2> HIDE DEF S, B
  <2>2. {Diagnostic("not-allowed", "section", <<h>>, By("title", <<>>)) : h \in S} = A
    OBVIOUS
  <2>3. QED
    BY <2>1, <2>2
<1>4. Typed /\ <<>> \in Anchor
  BY DEF Walking, Anchor
<1>5. /\ SoundSections(Titles) /\ SoundSections(Strays)
      /\ \A g : g \in Lists!ToSet(Titles) <=> g \in Heading /\ level[g] = 1
      /\ \A g \in Lists!ToSet(Strays) : g \in Heading /\ Parent(g) = 0 /\ Admits(RootLevel, g) /\ level[g] # 1
      /\ n # 0
  BY <1>1, <1>4, TitlesFacts
<1>6. /\ n \in Nat /\ DOMAIN Titles = 1 .. n /\ Distinct(Titles)
      /\ \A i \in 1 .. n : Titles[i] \in Sound /\ Titles[i] \in Heading /\ level[Titles[i]] = 1
                           /\ Titles[i] \in Lists!ToSet(Titles)
  <2>1. Titles \in Seq(Sound) /\ Distinct(Titles)
    BY <1>5 DEF SoundSections
  <2>2. n \in Nat /\ DOMAIN Titles = 1 .. n /\ \A i \in 1 .. n : Titles[i] \in Sound
    BY <2>1
  <2>3. \A i \in 1 .. n : Titles[i] \in Lists!ToSet(Titles)
    BY <2>2 DEF Lists!ToSet
  <2>4. QED
    BY <1>5, <2>1, <2>2, <2>3
<1>7. ASSUME NEW h \in Sound PROVE Voice(h) \in Anchor
  BY <1>4, AnchorsArePlaced DEF Voice
<1> HIDE DEF n
<1>8. ASSUME NEW i \in 1 .. n
      PROVE  /\ SoundSections(own(i))
             /\ \A g \in Lists!ToSet(own(i)) : /\ g \in Heading /\ Reached(g) /\ level[g] # 1
                                               /\ Parent(g) = Titles[i] \/ (Parent(g) = 0 /\ i = 1)
  <2> DEFINE h == Titles[i]  s == IF i = 1 THEN Strays ELSE <<>>  t == ChildSections(h)
  <2>1. h \in Sound /\ h \in Heading /\ level[h] = 1
    BY <1>6
  <2>2. /\ SoundSections(t)
        /\ \A g : g \in Lists!ToSet(t) <=> g \in Heading /\ Parent(g) = h /\ Admits(level[h], g)
    <3> HIDE DEF h
    <3>1. QED
      BY <1>4, <2>1, ChildSectionsFacts
  <2>3. /\ SoundSections(s)
        /\ \A g \in Lists!ToSet(s) : i = 1 /\ g \in Heading /\ Parent(g) = 0 /\ Admits(RootLevel, g) /\ level[g] # 1
    <3>1. SoundSections(<<>>) /\ Lists!ToSet(<<>>) = {}
      BY DEF SoundSections, Distinct, Lists!ToSet
    <3>2. QED
      BY <1>5, <3>1
  <2>4. h # 0
    <3> HIDE DEF h
    <3>1. QED
      BY <1>4, <2>1, ParentFacts
  <2> HIDE DEF h, s, t
  <2>5. Lists!ToSet(s) \cap Lists!ToSet(t) = {}
    BY <2>2, <2>3, <2>4
  <2>6. SoundSections(s \o t) /\ Lists!ToSet(s \o t) = Lists!ToSet(s) \union Lists!ToSet(t)
    BY <2>2, <2>3, <2>5, JoinDistinct DEF SoundSections
  <2>7. \A g \in Lists!ToSet(s) : Reached(g)
    BY <2>3 DEF Reached
  <2>8. \A g \in Lists!ToSet(t) : Reached(g) /\ level[g] # 1
    <3>1. \A g \in Lists!ToSet(t) : Reached(g)
      BY <1>1, <2>1, <2>2, <2>4 DEF Reached
    <3>2. \A g \in Lists!ToSet(t) : level[g] # 1
      BY <1>4, <2>2, <2>4, ParentFacts
    <3>3. QED
      BY <3>1, <3>2
  <2>9. own(i) = s \o t
    BY DEF s, t, h
  <2> HIDE DEF own
  <2>10. QED
    BY <2>2, <2>3, <2>6, <2>7, <2>8, <2>9 DEF h
<1> HIDE DEF own
<1>9. ASSUME NEW i \in 1 .. n
      PROVE  /\ ss[i] = <<c(i), r(i)[1], r(i)[2]>>
             /\ RootTask(c(i)) /\ RootTask(r(i)[1]) /\ RootTask(r(i)[2])
             /\ c(i).do = "content" /\ r(i)[1].do = "scope" /\ r(i)[2].do = "constraints"
             /\ Listed(r(i)[1]) = Lists!ToSet(own(i))
             /\ OfRoot(c(i), Titles[i], Voice(Titles[i]), own(i))
             /\ OfRoot(r(i)[1], Titles[i], Voice(Titles[i]), own(i))
             /\ OfRoot(r(i)[2], Titles[i], Voice(Titles[i]), own(i))
  <2>1. Titles[i] \in Sound /\ Voice(Titles[i]) \in Anchor
    BY <1>6, <1>7
  <2>2. RootTask(c(i)) /\ c(i).do = "content" /\ OfRoot(c(i), Titles[i], Voice(Titles[i]), own(i))
    BY <1>4, <2>1, FirstContent
  <2>3. /\ r(i) = <<r(i)[1], r(i)[2]>> /\ RootTask(r(i)[1]) /\ RootTask(r(i)[2])
        /\ r(i)[1].do = "scope" /\ r(i)[2].do = "constraints" /\ Listed(r(i)[1]) = Lists!ToSet(own(i))
        /\ OfRoot(r(i)[1], Titles[i], Voice(Titles[i]), own(i))
        /\ OfRoot(r(i)[2], Titles[i], Voice(Titles[i]), own(i))
    BY <1>4, <1>8, <2>1, RootTasksFacts
  <2>4. ss[i] = <<c(i)>> \o r(i)
    BY DEF VisitTitle, own
  <2> HIDE DEF ss, c, r
  <2>5. <<c(i)>> \o <<r(i)[1], r(i)[2]>> = <<c(i), r(i)[1], r(i)[2]>>
    BY TuplesJoin
  <2>6. ss[i] = <<c(i), r(i)[1], r(i)[2]>>
    BY <2>3, <2>4, <2>5
  <2>7. QED
    BY <2>2, <2>3, <2>6
<1> DEFINE T == UNION {Lists!ToSet(ss[i]) : i \in 1 .. n}
<1>10. Len(ss) = n /\ ss \in Seq(Seq(T))
  <2>1. DOMAIN ss = 1 .. n
    OBVIOUS
  <2>2. ASSUME NEW i \in 1 .. n PROVE ss[i] \in Seq(T)
    <3>1. ASSUME NEW x, NEW y, NEW z, ss[i] = <<x, y, z>> PROVE ss[i] \in Seq(Lists!ToSet(ss[i]))
      <4>1. <<x, y, z>> \in Seq({x, y, z})
        OBVIOUS
      <4> HIDE DEF ss
      <4>2. ss[i] \in Seq({x, y, z})
        BY <3>1, <4>1
      <4>3. QED
        BY <4>2, SeqIsSeq DEF IsSeq
    <3> HIDE DEF ss, c, r
    <3>2. ss[i] \in Seq(Lists!ToSet(ss[i])) /\ Lists!ToSet(ss[i]) \subseteq T
      BY <1>9, <3>1
    <3> HIDE DEF T
    <3>3. QED
      BY <3>2, SeqOfSet
  <2>3. ss = [i \in 1 .. n |-> ss[i]]
    BY <2>1
  <2> HIDE DEF ss, T
  <2>4. QED
    BY <1>6, <2>1, <2>2, <2>3
<1> HIDE DEF ss, c, r
<1>11. tasks \in Seq(T) /\ Traced(ss, tasks, n)
  <2> HIDE DEF T
  <2>1. QED
    BY <1>10, FlattenFacts
<1> HIDE DEF tasks, T
<1>12. PICK from, at : Traces(ss, tasks, n, from, at)
  BY <1>11 DEF Traced
<1>13. /\ \A p \in DOMAIN tasks : from[p] \in 1 .. n /\ at[p] \in DOMAIN ss[from[p]] /\ tasks[p] = ss[from[p]][at[p]]
       /\ \A p, q \in DOMAIN tasks : from[p] = from[q] /\ at[p] = at[q] => p = q
  BY <1>12 DEF Traces
<1>14. ASSUME NEW i \in 1 .. n, NEW k \in DOMAIN ss[i]
       PROVE  /\ RootTask(ss[i][k]) /\ ss[i][k].do # "refuse_titles"
              /\ Listed(ss[i][k]) # {} => k = 2 /\ Listed(ss[i][k]) = Lists!ToSet(own(i))
              /\ OfRoot(ss[i][k], Titles[i], Voice(Titles[i]), own(i))
              /\ \A l \in DOMAIN ss[i] : ss[i][k].do = ss[i][l].do => k = l
  <2>1. DOMAIN ss[i] = 1 .. 3 /\ ss[i][1] = c(i) /\ ss[i][2] = r(i)[1] /\ ss[i][3] = r(i)[2]
    <3>1. ASSUME NEW x, NEW y, NEW z, ss[i] = <<x, y, z>>
          PROVE DOMAIN ss[i] = 1 .. 3 /\ ss[i][1] = x /\ ss[i][2] = y /\ ss[i][3] = z
      BY <3>1
    <3>2. QED
      BY <1>9, <3>1
  <2>2. Listed(c(i)) = {} /\ Listed(r(i)[2]) = {}
    BY <1>9 DEF Listed
  <2>3. \A l \in DOMAIN ss[i] : ss[i][k].do = ss[i][l].do => k = l
    BY <1>9, <2>1
  <2>4. QED
    BY <1>9, <2>1, <2>2, <2>3
<1>15. \A p \in DOMAIN tasks : /\ RootTask(tasks[p]) /\ tasks[p].do # "refuse_titles"
                               /\ Listed(tasks[p]) # {} => at[p] = 2 /\ Listed(tasks[p]) = Lists!ToSet(own(from[p]))
  <2>1. SUFFICES ASSUME NEW p \in DOMAIN tasks
                 PROVE  /\ RootTask(tasks[p]) /\ tasks[p].do # "refuse_titles"
                        /\ Listed(tasks[p]) # {} => at[p] = 2 /\ Listed(tasks[p]) = Lists!ToSet(own(from[p]))
    OBVIOUS
  <2>2. from[p] \in 1 .. n /\ at[p] \in DOMAIN ss[from[p]] /\ tasks[p] = ss[from[p]][at[p]]
    BY <1>13
  <2>3. QED
    BY <1>14, <2>2
<1>16. ASSUME NEW p \in DOMAIN tasks, NEW q \in DOMAIN tasks,
              NEW g \in Listed(tasks[p]), NEW h \in Listed(tasks[q]), Parent(g) = Parent(h)
       PROVE  p = q
  <2>1. /\ from[p] \in 1 .. n /\ from[q] \in 1 .. n /\ at[p] = 2 /\ at[q] = 2
        /\ g \in Lists!ToSet(own(from[p])) /\ h \in Lists!ToSet(own(from[q]))
    BY <1>13, <1>15
  <2>2. /\ Parent(g) = Titles[from[p]] \/ (Parent(g) = 0 /\ from[p] = 1)
        /\ Parent(h) = Titles[from[q]] \/ (Parent(h) = 0 /\ from[q] = 1)
    BY <1>8, <2>1
  <2>3. \A i \in 1 .. n : Titles[i] # 0
    BY <1>4, <1>6, ParentFacts
  <2>4. from[p] = from[q]
    BY <1>6, <1>16, <2>1, <2>2, <2>3 DEF Distinct
  <2>5. QED
    BY <1>13, <2>1, <2>4
<1>17. tasks \in Seq(Lists!ToSet(tasks))
  BY <1>11, SeqIsSeq DEF IsSeq
<1>18. IsFiniteSet(S)
  <2>1. S \in SUBSET Heading
    BY <1>5
  <2> HIDE DEF S
  <2>2. QED
    BY <1>4, <2>1, HeadingsAreFinite, FS_Subset
<1>19. DOMAIN f = S /\ \A h \in S : f[h].at = <<h>> /\ f[h].id = <<"not-allowed", "section">>
  BY DEF Diagnostic
<1>20. \A h \in S : h \in Heading /\ level[h] = 1 /\ h \in Sound
  <2>1. \A h \in Lists!ToSet(Titles) : h \in Heading /\ level[h] = 1 /\ h \in Sound
    BY <1>5, SeqIsSeq DEF SoundSections
  <2>2. QED
    BY <2>1
<1> HIDE DEF f, S
<1>21. IsFiniteSet(A)
  BY <1>18, <1>19, ValuesAreFinite
<1>22. IsFiniteSet(B) /\ \A d \in B : /\ d.id = <<"too-many", "section">> /\ d.at = <<Titles[2]>> /\ 2 \in 1 .. n
  <2>1. IsFiniteSet(B)
    BY FS_Singleton, FS_EmptySet
  <2>2. \A d \in B : /\ d.id = <<"too-many", "section">> /\ d.at = <<Titles[2]>> /\ n > 1
    BY DEF Diagnostic
  <2> HIDE DEF B
  <2>3. QED
    BY <1>6, <2>1, <2>2
<1> HIDE DEF B
<1>23. Extended(D)
  <2>1. IsFiniteSet(D)
    <3> HIDE DEF A
    <3>1. QED
      BY <1>21, <1>22, FS_Union
  <2> HIDE DEF D
  <2>2. QED
    BY <1>1, <1>3, <2>1, RootIsLast, EmitExtends
<1>24. \A d \in A : \E h \in S : d = f[h] /\ d.at = <<h>> /\ d.id = <<"not-allowed", "section">>
  BY <1>19
<1> HIDE DEF A
<1>25. \A d \in D : Placed(d) /\ \A h : ~OrderViolation(d, h)
  <2>1. ASSUME NEW d \in A PROVE Placed(d) /\ \A h : ~OrderViolation(d, h)
    <3>1. PICK h \in S : d.at = <<h>> /\ d.id = <<"not-allowed", "section">>
      BY <1>24
    <3>2. <<h>> \in Anchor
      BY <1>20, AnchorsArePlaced
    <3>3. Placed(d)
      BY <3>1, <3>2, AnchorsArePlaced
    <3>4. QED
      BY <3>1, <3>3, OtherWords
  <2>2. ASSUME NEW d \in B PROVE Placed(d) /\ \A h : ~OrderViolation(d, h)
    <3>1. d.at = <<Titles[2]>> /\ d.id = <<"too-many", "section">> /\ Titles[2] \in Sound
      BY <1>6, <1>22
    <3>2. <<Titles[2]>> \in Anchor
      BY <3>1, AnchorsArePlaced
    <3>3. Placed(d)
      BY <3>1, <3>2, AnchorsArePlaced
    <3>4. QED
      BY <3>1, <3>3, OtherWords
  <2>3. QED
    BY <2>1, <2>2
<1>26. \A d \in D, h \in Heading : Judges(d, h) => h \in S /\ d = f[h]
  <2>1. SUFFICES ASSUME NEW d \in D, NEW h \in Heading, Judges(d, h) PROVE h \in S /\ d = f[h]
    OBVIOUS
  <2>2. d \notin B
    BY <1>22, <2>1, OtherWords DEF Judges
  <2>3. PICK g \in S : d = f[g] /\ d.at = <<g>>
    BY <1>24, <2>2
  <2>4. <<g>> = <<h>>
    BY <2>1, <2>3 DEF Judges
  <2>5. QED
    BY <2>3, <2>4
<1> HIDE DEF D
<1>27. \A d \in D, h \in Heading : Judges(d, h) => schema.shape = "titled" /\ level[h] = 1
  BY <1>1, <1>20, <1>26
<1>28. \A d, e \in D, h \in Heading : Judges(d, h) /\ Judges(e, h) => d = e
  BY <1>26
<1>29. \A k \in DOMAIN tasks : RootTask(tasks[k]) /\ tasks[k].do # "refuse_titles"
  BY <1>15
<1>30. Walking'
  BY <1>1, <1>2, <1>16, <1>17, <1>23, <1>25, <1>27, <1>28, <1>29, RootStep
<1>31. ASSUME NEW i \in 1 .. n
       PROVE  /\ RootOf(Titles[i], own(i)) /\ Titles[i] # 0 /\ Titles[i] \in Heading
              /\ Voice(Titles[i]) \in Voices(Titles[i])
              /\ n > 1 => Voice(Titles[i]) = <<Titles[i]>>
  <2>1. RootOf(Titles[i], own(i))
    BY <1>6, <1>8 DEF RootOf
  <2>2. Titles[i] # 0
    BY <1>4, <1>6, ParentFacts
  <2>3. Voice(Titles[i]) \in Voices(Titles[i]) /\ (n > 1 => Voice(Titles[i]) = <<Titles[i]>>)
    BY DEF Voice, Voices, n
  <2>4. QED
    BY <1>6, <2>1, <2>2, <2>3
<1>32. \A p \in DOMAIN tasks : OfRoot(tasks[p], Titles[from[p]], Voice(Titles[from[p]]), own(from[p]))
  BY <1>13, <1>14
<1>33. ASSUME NEW p \in DOMAIN tasks, NEW q \in DOMAIN tasks, NEW d, Says(tasks[p], d), Says(tasks[q], d)
       PROVE  p = q
  <2> DEFINE i == from[p]  j == from[q]
  <2>1. i \in 1 .. n /\ j \in 1 .. n
    BY <1>13
  <2>2. /\ OfRoot(tasks[p], Titles[i], Voice(Titles[i]), own(i)) /\ RootOf(Titles[i], own(i)) /\ Titles[i] # 0
        /\ OfRoot(tasks[q], Titles[j], Voice(Titles[j]), own(j)) /\ RootOf(Titles[j], own(j)) /\ Titles[j] # 0
        /\ Voice(Titles[i]) \in Voices(Titles[i])
    BY <1>31, <1>32, <2>1
  <2>3. CASE i = j
    <3>1. tasks[p].do = tasks[q].do
      BY <1>4, <1>33, <2>2, <2>3, RootTasksPart
    <3>2. at[p] \in DOMAIN ss[i] /\ at[q] \in DOMAIN ss[i] /\ tasks[p] = ss[i][at[p]] /\ tasks[q] = ss[i][at[q]]
      BY <1>13, <2>3
    <3>3. at[p] = at[q]
      BY <1>14, <2>1, <3>1, <3>2
    <3>4. QED
      BY <1>13, <2>3, <3>3
  <2>4. CASE i # j
    <3>1. Titles[i] # Titles[j]
      BY <1>6, <2>1, <2>4 DEF Distinct
    <3>2. n > 1
      BY <1>6, <2>1, <2>4
    <3>3. Voice(Titles[i]) = <<Titles[i]>> /\ Voice(Titles[j]) = <<Titles[j]>>
      BY <1>31, <2>1, <3>2
    <3>4. \A x \in Lists!ToSet(own(i)), y \in Lists!ToSet(own(j)) : Parent(x) # Parent(y)
      BY <1>8, <2>1, <2>2, <2>4, <3>1
    <3> HIDE DEF i, j
    <3>5. FALSE
      BY <1>4, <1>33, <2>2, <3>1, <3>3, <3>4, TitlesPart
    <3>6. QED
      BY <3>5
  <2>5. QED
    BY <2>3, <2>4
<1>34. ASSUME NEW d \in B, NEW p \in DOMAIN tasks, Says(tasks[p], d) PROVE FALSE
  <2> DEFINE i == from[p]
  <2>1. i \in 1 .. n
    BY <1>13
  <2>2. OfRoot(tasks[p], Titles[i], Voice(Titles[i]), own(i)) /\ RootOf(Titles[i], own(i)) /\ Titles[i] # 0
        /\ Voice(Titles[i]) \in Voices(Titles[i])
    BY <1>31, <1>32, <2>1
  <2> HIDE DEF i
  <2>3. d.id = <<"too-many", "section">> /\ d.at = <<Titles[2]>> /\ level[Titles[2]] = 1
    BY <1>6, <1>22
  <2>4. Within(own(i), d)
    BY <1>4, <1>34, <2>2, <2>3, RootSays
  <2>5. PICK g \in Lists!ToSet(own(i)) : Titles[2] \in Branch(g)
    BY <2>3, <2>4 DEF Within
  <2>6. level[Titles[2]] # 1
    BY <1>4, <2>2, <2>5, RootParts
  <2>7. QED
    BY <2>3, <2>6
<1>35. \A k \in DOMAIN tasks : \E of, s : RootOf(of, s) /\ \E a \in Voices(of) : OfRoot(tasks[k], of, a, s)
  BY <1>13, <1>31, <1>32
<1>36. \A d \in D : \/ \E h \in Heading : Judges(d, h)
                    \/ d.id[2] = "title"
                    \/ d.id = <<"too-many", "section">> /\ \A k \in DOMAIN tasks : ~Says(tasks[k], d)
  <2>1. \A d \in A : \E h \in Heading : Judges(d, h)
    BY <1>20, <1>24 DEF Judges, Judging
  <2>2. \A d \in B : d.id = <<"too-many", "section">> /\ \A k \in DOMAIN tasks : ~Says(tasks[k], d)
    BY <1>22, <1>34
  <2>3. \A d \in D : d \in A \/ d \in B
    BY DEF D
  <2>4. QED
    BY <2>1, <2>2, <2>3
<1>37. Voicing => Voicing'
  BY <1>1, <1>2, <1>17, <1>23, <1>30, <1>33, <1>35, <1>36, RootVoices
<1>38. QED
  BY <1>30, <1>37

(* The scope that is bound next has untouched headings.                     *)
LEMMA ListedAreUntouched ==
    ASSUME Walking, Doing("scope")
    PROVE  /\ Opened /\ IsSeq(agenda) /\ IsSeq(pending) /\ agenda # <<>> /\ 1 \in DOMAIN agenda /\ Now = agenda[1]
           /\ SoundSections(Now.sections) /\ Now.scope \in Grammars \union {None}
           /\ Now.path \in Seq(Nat) /\ Now.parent \in Anchor
           /\ Listed(agenda[1]) = Lists!ToSet(Now.sections)
           /\ \A h \in Lists!ToSet(Now.sections) : Untouched(h) /\ h \in Sound
<1>1. /\ Opened /\ IsSeq(agenda) /\ IsSeq(pending) /\ agenda # <<>> /\ 1 \in DOMAIN agenda
      /\ Now = agenda[1] /\ FitsTask(Now) /\ Now.do = "scope"
  <2>1. "scope" \notin Opening
    BY DEF Opening
  <2>2. QED
    BY <2>1, NowFits
<1>2. /\ SoundSections(Now.sections) /\ Now.scope \in Grammars \union {None}
      /\ Now.path \in Seq(Nat) /\ Now.parent \in Anchor
  BY <1>1 DEF FitsTask
<1>3. Listed(agenda[1]) = Lists!ToSet(Now.sections)
  BY <1>1 DEF Listed
<1>4. ASSUME NEW h \in Listed(agenda[1]) PROVE Untouched(h) /\ h \in Sound
  <2>1. h \in Heading /\ h \in Sound
    BY <1>1, ListedIsSound DEF Walking
  <2>2. Reached(h) /\ Judgements(h) = {} /\ bound[h] = None /\ (schema.shape = "outline" \/ level[h] # 1)
    BY <1>1, <2>1 DEF Walking, ListedOnce
  <2>3. \A k \in DOMAIN agenda : k # 1 => h \notin Listed(agenda[k])
    BY <1>1 DEF Walking, ListedOnce
  <2>4. \A k \in DOMAIN agenda : agenda[k].do = "refuse_titles" => schema.shape = "untitled"
    BY DEF Walking, Refusing
  <2>5. QED
    BY <2>1, <2>2, <2>3, <2>4 DEF Untouched
<1>5. QED
  BY <1>1, <1>2, <1>3, <1>4

(* What the guards say.                                                     *)
LEMMA GuardsSay ==
    ASSUME Walking, Doing("scope"), NEW D, D = RefusedByGuard(Now.scope, Now.sections, Now.path)
    PROVE  /\ IsFiniteSet(D)
           /\ \A d \in D : \E h \in Lists!ToSet(Now.sections) :
                 Guarded(Now.scope, h) /\ d.at = <<h>> /\ d.id = <<"not-allowed", "section">>
           /\ \A d, e \in D : d.at = e.at => d = e
<1>1. SoundSections(Now.sections)
  BY ListedAreUntouched
<1>2. IsSeq(Now.sections)
  BY <1>1, SeqIsSeq DEF SoundSections
<1>3. QED
  BY <1>2, RefusedByGuardFacts

(* A scope of guards refuses some headings and binds none.                  *)
LEMMA GuardedScopeKeeps ==
    ASSUME Walking, Doing("scope"), Emit(RefusedByGuard(Now.scope, Now.sections, Now.path)),
           Continue(<<>>), UNCHANGED <<input, bound, captured, outcome>>
    PROVE  Walking' /\ (Voicing => Voicing')
<1> DEFINE D == RefusedByGuard(Now.scope, Now.sections, Now.path)
<1>1. /\ Opened /\ IsSeq(agenda) /\ IsSeq(pending) /\ agenda # <<>> /\ 1 \in DOMAIN agenda
      /\ \A h \in Lists!ToSet(Now.sections) : Untouched(h) /\ h \in Sound
  BY ListedAreUntouched
<1>2. Emit(D)
  OBVIOUS
<1>3. /\ IsFiniteSet(D)
      /\ \A d \in D : \E h \in Lists!ToSet(Now.sections) : d.at = <<h>> /\ d.id = <<"not-allowed", "section">>
      /\ \A d, e \in D : d.at = e.at => d = e
  <2> HIDE DEF D
  <2>1. D = RefusedByGuard(Now.scope, Now.sections, Now.path)
    BY DEF D
  <2>2. QED
    BY <2>1, GuardsSay
<1> HIDE DEF D
<1>4. Extended(D)
  BY <1>1, <1>2, <1>3, EmitExtends
<1>5. ASSUME NEW d \in D
      PROVE  /\ Placed(d) /\ \A h : ~OrderViolation(d, h)
             /\ \A h \in Heading : Judges(d, h) => Untouched(h)
  <2>1. PICK g \in Lists!ToSet(Now.sections) : d.at = <<g>> /\ d.id = <<"not-allowed", "section">>
    BY <1>3
  <2>2. <<g>> \in Anchor
    BY <1>1, AnchorsArePlaced
  <2>3. Placed(d)
    BY <2>1, <2>2, AnchorsArePlaced
  <2>4. \A h : ~OrderViolation(d, h)
    BY <2>1, OtherWords
  <2>5. \A h : Judges(d, h) => h = g
    <3>1. \A h : <<g>> = <<h>> => h = g
      OBVIOUS
    <3>2. QED
      BY <2>1, <3>1 DEF Judges
  <2>6. QED
    BY <1>1, <2>3, <2>4, <2>5
<1>6. \A d, e \in D, h \in Heading : Judges(d, h) /\ Judges(e, h) => d = e
  BY <1>3 DEF Judges
<1>7. Continued(<<>>)
  BY <1>1, NoTasks
<1>8. BindingTasks(<<>>) /\ \A t \in Lists!ToSet(<<>>) : FitsTask(t)'
  BY DEF BindingTasks, Lists!ToSet
<1>9. DOMAIN bound' = Heading /\ bound' = bound
  BY DEF Walking, Shaped
<1>10. Walking'
  BY <1>1, <1>4, <1>5, <1>6, <1>7, <1>8, <1>9, BindingStep DEF Newly
<1>11. \A d \in D : \E h \in Heading : Judges(d, h)
  BY <1>1, <1>3 DEF Judges, Judging, Sound
<1>12. Voicing => Voicing'
  BY <1>1, <1>4, <1>10, <1>11, LeafStep
<1>13. QED
  BY <1>10, <1>12

-----------------------------------------------------------------------------
(* A scope with kept headings, and to which of them it assigns rules.       *)
Assigning(scope, kept, assigned) ==
    /\ scope \in Grammars
    /\ SoundSections(kept) /\ Lists!ToSet(kept) \subseteq Lists!ToSet(Now.sections)
    /\ \A h \in Lists!ToSet(kept) : ~Guarded(scope, h)
    /\ Assigns(assigned, scope.rules, Len(kept))
Taken(kept, assigned, i) == i \in 1 .. Len(kept) /\ assigned[i] # None

(* How binding a scope changes what is bound.                               *)
Binds(kept, assigned) ==
    bound' = [h \in Heading |->
                IF \E i \in 1 .. Len(kept) : kept[i] = h /\ assigned[i] # None
                THEN Append(Now.path, assigned[CHOOSE i \in 1 .. Len(kept) : kept[i] = h])
                ELSE bound[h]]

(* Each kept heading is assigned one of the rules, or none.                 *)
LEMMA AssigningFacts ==
    ASSUME NEW scope, NEW kept, NEW assigned, Assigning(scope, kept, assigned)
    PROVE  /\ Len(kept) \in Nat /\ DOMAIN kept = 1 .. Len(kept) /\ DOMAIN assigned = 1 .. Len(kept)
           /\ IsSeq(scope.rules)
           /\ \A i \in 1 .. Len(kept) : kept[i] \in Sound /\ kept[i] \in Heading /\ kept[i] \in Lists!ToSet(kept)
           /\ \A i, j \in 1 .. Len(kept) : kept[i] = kept[j] => i = j
           /\ \A i : Taken(kept, assigned, i) => /\ assigned[i] \in DOMAIN scope.rules /\ assigned[i] \in Nat
<1>1. kept \in Seq(Sound) /\ Distinct(kept)
  BY DEF Assigning, SoundSections
<1>2. Len(kept) \in Nat /\ DOMAIN kept = 1 .. Len(kept) /\ \A i \in 1 .. Len(kept) : kept[i] \in Sound
  BY <1>1
<1>3. \A i \in 1 .. Len(kept) : kept[i] \in Lists!ToSet(kept) /\ kept[i] \in Heading
  BY <1>2 DEF Lists!ToSet, Sound
<1>4. IsSeq(scope.rules)
  BY GrammarsNest DEF Assigning
<1>5. Len(scope.rules) \in Nat /\ DOMAIN scope.rules = 1 .. Len(scope.rules)
  BY <1>4, SeqFacts
<1>6. /\ DOMAIN assigned = 1 .. Len(kept)
      /\ \A i \in 1 .. Len(kept) : assigned[i] = None \/ assigned[i] \in DOMAIN scope.rules
  BY <1>5 DEF Assigning, Assigns, RuleOf
<1>7. \A c \in DOMAIN scope.rules : c \in Nat
  BY <1>5
<1>8. QED
  BY <1>1, <1>2, <1>3, <1>4, <1>6, <1>7 DEF Taken, Distinct

(* Exactly the headings that are assigned a rule are newly bound.           *)
LEMMA BindsFacts ==
    ASSUME Walking, Doing("scope"),
           NEW scope, NEW kept, NEW assigned, Assigning(scope, kept, assigned), Binds(kept, assigned)
    PROVE  /\ DOMAIN bound' = Heading
           /\ \A h \in Heading : bound[h] # None => bound'[h] = bound[h]
           /\ \A h \in Heading : Newly(h) <=> \E i : Taken(kept, assigned, i) /\ kept[i] = h
<1>1. /\ Len(kept) \in Nat /\ DOMAIN kept = 1 .. Len(kept) /\ DOMAIN assigned = 1 .. Len(kept)
      /\ \A i \in 1 .. Len(kept) : kept[i] \in Sound /\ kept[i] \in Heading /\ kept[i] \in Lists!ToSet(kept)
      /\ \A i, j \in 1 .. Len(kept) : kept[i] = kept[j] => i = j
      /\ \A i : Taken(kept, assigned, i) => assigned[i] \in Nat
  BY AssigningFacts
<1>2. \A h \in Lists!ToSet(kept) : bound[h] = None
  BY ListedAreUntouched DEF Assigning, Untouched
<1>3. Now.path \in Seq(Nat)
  BY ListedAreUntouched
<1>4. DOMAIN bound' = Heading
  BY DEF Binds
<1>5. \A h \in Heading : (~\E i : Taken(kept, assigned, i) /\ kept[i] = h) => bound'[h] = bound[h]
  BY DEF Binds, Taken
<1>6. ASSUME NEW i, Taken(kept, assigned, i) PROVE bound'[kept[i]] # None
  <2> DEFINE h == kept[i]  j == CHOOSE k \in 1 .. Len(kept) : kept[k] = h
  <2>1. h \in Heading /\ i \in 1 .. Len(kept) /\ assigned[i] # None
    BY <1>1, <1>6 DEF Taken
  <2>2. j = i
    <3>1. j \in 1 .. Len(kept) /\ kept[j] = kept[i]
      BY <2>1
    <3> HIDE DEF j
    <3>2. QED
      BY <1>1, <2>1, <3>1
  <2>3. bound'[h] = Append(Now.path, assigned[j])
    BY <2>1 DEF Binds
  <2> HIDE DEF h, j
  <2>4. Append(Now.path, assigned[i]) \in Seq(Nat)
    BY <1>1, <1>3, <1>6
  <2>5. QED
    BY <2>2, <2>3, <2>4, NoneIsApart DEF h
<1>7. ASSUME NEW h \in Heading PROVE (bound[h] # None => bound'[h] = bound[h])
                                     /\ (Newly(h) <=> \E i : Taken(kept, assigned, i) /\ kept[i] = h)
  <2>1. CASE \E i : Taken(kept, assigned, i) /\ kept[i] = h
    <3>1. PICK i : Taken(kept, assigned, i) /\ kept[i] = h
      BY <2>1
    <3>2. bound[h] = None
      BY <1>1, <1>2, <3>1 DEF Taken
    <3>3. bound'[h] # None
      BY <1>6, <3>1
    <3>4. QED
      BY <2>1, <3>2, <3>3 DEF Newly
  <2>2. CASE ~\E i : Taken(kept, assigned, i) /\ kept[i] = h
    BY <1>5, <2>2 DEF Newly
  <2>3. QED
    BY <2>1, <2>2
<1>8. QED
  BY <1>4, <1>7

(* The visits of the headings that have a rule, one after another.          *)
Visits(scope, kept, assigned, occupied) ==
    [k \in 1 .. Len(occupied) |->
        VisitSection(kept[occupied[k]], scope.rules[assigned[occupied[k]]],
                     Append(Now.path, assigned[occupied[k]]))]

(* The places that have a rule, in some order, each once.                   *)
Occupied(kept, assigned, occupied) ==
    /\ Len(occupied) \in Nat /\ DOMAIN occupied = 1 .. Len(occupied)
    /\ \A k \in 1 .. Len(occupied) : Taken(kept, assigned, occupied[k])
    /\ \A k, l \in 1 .. Len(occupied) : occupied[k] = occupied[l] => k = l

(* A visit is of the capture of a heading, its content or its child scope.  *)
OfVisit(t, h) ==
    \/ t.do = "capture" /\ t.of = h
    \/ t.do = "content" /\ t.of = h /\ t.absence = <<h>>
    \/ t.do = "scope" /\ t.sections = ChildSections(h) /\ t.parent = <<h>>

(* Each visit is of one newly bound heading, and lists its children.        *)
VisitOf(t, h) ==
    /\ t.do \in {"content", "capture", "scope"} /\ OfVisit(t, h)
    /\ \A g \in Listed(t) : g \in Heading /\ Parent(g) = h /\ Admits(level[h], g)

(* They are of a kind each, the last one the child scope.                   *)
VisitsOf(v, h) ==
    /\ DOMAIN v = 1 .. 3 /\ v \in Seq(Lists!ToSet(v))
    /\ \A k \in 1 .. 3 : VisitOf(v[k], h) /\ (Listed(v[k]) # {} => k = 3)
    /\ \A k, l \in 1 .. 3 : v[k].do = v[l].do => k = l

(* A visit is of the content, the capture and the child scope of one        *)
(* heading.                                                                 *)
LEMMA VisitFacts ==
    ASSUME Walking, Doing("scope"), UNCHANGED input,
           NEW scope, NEW kept, NEW assigned, Assigning(scope, kept, assigned), Binds(kept, assigned),
           NEW i, Taken(kept, assigned, i), NEW v,
           v = VisitSection(kept[i], scope.rules[assigned[i]], Append(Now.path, assigned[i]))
    PROVE  /\ VisitsOf(v, kept[i])
           /\ \A t \in Lists!ToSet(v) : FitsTask(t)'
<1> DEFINE h == kept[i]  rule == scope.rules[assigned[i]]  path == Append(Now.path, assigned[i])
           x == CaptureTask(h, rule, path)
           y == ContentTask(h, rule.content, path, <<h>>)
           z == ScopeTask(ChildSections(h), rule.children, path, <<h>>)
<1>1. h \in Sound /\ h \in Heading /\ assigned[i] \in DOMAIN scope.rules /\ assigned[i] \in Nat
  BY AssigningFacts DEF Taken
<1>2. v = <<x, y, z>>
  BY DEF VisitSection
<1>3. DOMAIN v = 1 .. 3 /\ v \in Seq(Lists!ToSet(v)) /\ v[1] = x /\ v[2] = y /\ v[3] = z
  <2> HIDE DEF x, y, z
  <2>1. <<x, y, z>> \in Seq({x, y, z})
    OBVIOUS
  <2>2. v \in Seq({x, y, z})
    BY <1>2, <2>1
  <2>3. v \in Seq(Lists!ToSet(v))
    BY <2>2, SeqIsSeq DEF IsSeq
  <2>4. QED
    BY <1>2, <2>3
<1>4. /\ rule.children \in Grammars \union {None} /\ rule.content \in Contents \union {None}
      /\ path \in Seq(Nat) /\ <<h>> \in Anchor
  <2>1. Now.path \in Seq(Nat)
    BY ListedAreUntouched
  <2>2. path \in Seq(Nat)
    BY <1>1, <2>1
  <2>3. rule.children \in Grammars \union {None} /\ rule.content \in Contents \union {None}
    BY <1>1, GrammarsNest DEF Assigning
  <2>4. <<h>> \in Anchor
    BY <1>1, AnchorsArePlaced
  <2>5. QED
    BY <2>2, <2>3, <2>4
<1>5. /\ SoundSections(ChildSections(h))
      /\ \A g \in Lists!ToSet(ChildSections(h)) : g \in Heading /\ Parent(g) = h /\ Admits(level[h], g)
  <2> HIDE DEF h
  <2>1. QED
    BY <1>1, ChildSectionsFacts DEF Walking
<1>6. /\ x.do = "capture" /\ x.of = h
      /\ y.do = "content" /\ y.of = h /\ y.rules = rule.content /\ y.path = path /\ y.absence = <<h>>
      /\ z.do = "scope" /\ z.sections = ChildSections(h) /\ z.scope = rule.children /\ z.path = path /\ z.parent = <<h>>
  BY DEF CaptureTask, ContentTask, ScopeTask
<1>7. bound'[h] # None
  <2>1. Newly(h)
    BY <1>1, BindsFacts
  <2>2. QED
    BY <2>1 DEF Newly
<1>8. Growing
  BY BindsFacts DEF Growing
<1> HIDE DEF x, y, z, h, rule, path
<1>9. ASSUME NEW t, t = x PROVE FitsTask(t)'
  <2>1. Sound' = Sound
    BY InputStays
  <2>2. t.do = "capture" /\ t.of \in Sound' /\ bound'[t.of] # None
    BY <1>1, <1>6, <1>7, <1>9, <2>1
  <2>3. QED
    BY <2>2 DEF FitsTask
<1>10. ASSUME NEW t, t = y PROVE FitsTask(t)'
  <2>1. FitsTask(t)
    BY <1>1, <1>4, <1>6, <1>10 DEF FitsTask
  <2>2. QED
    BY <1>8, <2>1, FitsStays
<1>11. ASSUME NEW t, t = z PROVE FitsTask(t)'
  <2>1. FitsTask(t)
    BY <1>4, <1>5, <1>6, <1>11 DEF FitsTask
  <2>2. QED
    BY <1>8, <2>1, FitsStays
<1>12. Listed(x) = {} /\ Listed(y) = {} /\ Listed(z) = Lists!ToSet(ChildSections(h))
  BY <1>6 DEF Listed
<1>13. VisitOf(x, h) /\ VisitOf(y, h) /\ VisitOf(z, h)
  BY <1>5, <1>6, <1>12 DEF VisitOf, OfVisit
<1>14. ASSUME NEW k \in 1 .. 3 PROVE VisitOf(v[k], kept[i]) /\ (Listed(v[k]) # {} => k = 3)
  BY <1>3, <1>12, <1>13 DEF h
<1>15. ASSUME NEW t \in Lists!ToSet(v) PROVE FitsTask(t)'
  <2>1. t = x \/ t = y \/ t = z
    BY <1>3 DEF Lists!ToSet
  <2>2. QED
    BY <1>9, <1>10, <1>11, <2>1
<1>16. \A k, l \in 1 .. 3 : v[k].do = v[l].do => k = l
  BY <1>3, <1>6
<1>17. QED
  BY <1>3, <1>14, <1>15, <1>16 DEF VisitsOf

(* The tasks of a scope are the visits of its headings, a task of each kind *)
(* for each, and their order.                                               *)
Visited(kept, tasks) ==
    /\ \A p \in DOMAIN tasks : \/ tasks[p].do = "order" /\ tasks[p].sections = kept
                               \/ \E h \in Lists!ToSet(kept) : OfVisit(tasks[p], h)
    /\ \A p, q \in DOMAIN tasks : tasks[p].do = "order" /\ tasks[q].do = "order" => p = q
    /\ \A p, q \in DOMAIN tasks : \A h :
          OfVisit(tasks[p], h) /\ OfVisit(tasks[q], h) /\ tasks[p].do = tasks[q].do => p = q

(* The visits of a scope, and its order, are tasks that a binding step may  *)
(* leave.                                                                   *)
LEMMA ScopeTasksFacts ==
    ASSUME Walking, Doing("scope"), UNCHANGED input,
           NEW scope, NEW kept, NEW assigned, Assigning(scope, kept, assigned), Binds(kept, assigned),
           NEW occupied, Occupied(kept, assigned, occupied),
           NEW ss, ss = Visits(scope, kept, assigned, occupied), NEW flat, flat = Lists!FlattenSeq(ss),
           NEW last, last = OrderTask(kept, scope.rules, Now.path), NEW tasks, tasks = flat \o <<last>>
    PROVE  /\ BindingTasks(tasks) /\ tasks \in Seq(Lists!ToSet(tasks)) /\ Visited(kept, tasks)
           /\ \A t \in Lists!ToSet(tasks) : FitsTask(t)'
<1> DEFINE n == Len(occupied)
           T == UNION {Lists!ToSet(ss[k]) : k \in 1 .. n}
           own(k) == kept[occupied[k]]
<1>1. n \in Nat /\ DOMAIN ss = 1 .. n
  BY DEF Occupied, Visits
<1>2. ASSUME NEW k \in 1 .. n PROVE VisitsOf(ss[k], own(k)) /\ \A t \in Lists!ToSet(ss[k]) : FitsTask(t)'
  <2>1. Taken(kept, assigned, occupied[k])
    BY DEF Occupied
  <2>2. ss[k] = VisitSection(kept[occupied[k]], scope.rules[assigned[occupied[k]]],
                             Append(Now.path, assigned[occupied[k]]))
    BY DEF Visits
  <2>3. ASSUME NEW v, v = ss[k] PROVE VisitsOf(v, own(k)) /\ \A t \in Lists!ToSet(v) : FitsTask(t)'
    <3>1. ASSUME NEW i, i = occupied[k] PROVE VisitsOf(v, kept[i]) /\ \A t \in Lists!ToSet(v) : FitsTask(t)'
      <4>1. Taken(kept, assigned, i) /\ v = VisitSection(kept[i], scope.rules[assigned[i]], Append(Now.path, assigned[i]))
        BY <2>1, <2>2, <2>3, <3>1
      <4>2. QED
        BY <4>1, VisitFacts
    <3>2. QED
      BY <3>1
  <2>4. QED
    BY <2>3
<1> HIDE DEF n
<1>3. Len(ss) = n /\ ss \in Seq(Seq(T))
  <2>1. ASSUME NEW k \in 1 .. n PROVE ss[k] \in Seq(T)
    <3>1. ss[k] \in Seq(Lists!ToSet(ss[k])) /\ Lists!ToSet(ss[k]) \subseteq T
      BY <1>2 DEF VisitsOf
    <3> HIDE DEF T
    <3>2. QED
      BY <3>1, SeqOfSet
  <2>2. ss = [k \in 1 .. n |-> ss[k]]
    BY <1>1 DEF Visits
  <2> HIDE DEF T
  <2>3. ss \in [1 .. n -> Seq(T)]
    BY <2>1, <2>2
  <2>4. QED
    BY <1>1, <2>3
<1>4. flat \in Seq(T) /\ Traced(ss, flat, n)
  <2> HIDE DEF T
  <2>1. QED
    BY <1>3, FlattenFacts
<1>5. tasks = Joined(flat, <<last>>)
  BY DEF Joined
<1> HIDE DEF T
<1>6. PICK from, at : Traces(ss, flat, n, from, at)
  BY <1>4 DEF Traced
<1>7. /\ \A p \in DOMAIN flat : from[p] \in 1 .. n /\ at[p] \in DOMAIN ss[from[p]] /\ flat[p] = ss[from[p]][at[p]]
      /\ \A p, q \in DOMAIN flat : from[p] = from[q] /\ at[p] = at[q] => p = q
  BY <1>6 DEF Traces
<1>8. ASSUME NEW p \in DOMAIN flat
      PROVE  /\ from[p] \in 1 .. n /\ VisitOf(flat[p], own(from[p]))
             /\ Listed(flat[p]) # {} => at[p] = 3
             /\ flat[p] \in Lists!ToSet(ss[from[p]])
  <2>1. from[p] \in 1 .. n /\ at[p] \in DOMAIN ss[from[p]] /\ flat[p] = ss[from[p]][at[p]]
    BY <1>7
  <2>2. at[p] \in 1 .. 3
    BY <1>2, <2>1 DEF VisitsOf
  <2>3. VisitOf(flat[p], own(from[p])) /\ (Listed(flat[p]) # {} => at[p] = 3)
    <3> HIDE DEF own
    <3>1. QED
      BY <1>2, <2>1, <2>2 DEF VisitsOf
  <2>4. flat[p] \in Lists!ToSet(ss[from[p]])
    BY <2>1 DEF Lists!ToSet
  <2>5. QED
    BY <2>1, <2>3, <2>4
<1>9. ASSUME NEW p \in DOMAIN flat, NEW q \in DOMAIN flat,
             NEW g \in Listed(flat[p]), NEW h \in Listed(flat[q]), Parent(g) = Parent(h)
      PROVE  p = q
  <2>1. /\ from[p] \in 1 .. n /\ from[q] \in 1 .. n /\ at[p] = at[q]
        /\ Parent(g) = own(from[p]) /\ Parent(h) = own(from[q])
    BY <1>8 DEF VisitOf
  <2>2. \A k \in 1 .. n : occupied[k] \in 1 .. Len(kept)
    BY DEF Occupied, Taken, n
  <2>3. occupied[from[p]] = occupied[from[q]]
    BY <1>9, <2>1, <2>2, AssigningFacts
  <2>4. from[p] = from[q]
    BY <2>1, <2>3 DEF Occupied, n
  <2>5. QED
    BY <1>7, <2>1, <2>4
<1>10. \A k \in 1 .. n : own(k) \in Heading /\ Newly(own(k))
  <2>1. SUFFICES ASSUME NEW k \in 1 .. n PROVE own(k) \in Heading /\ Newly(own(k))
    OBVIOUS
  <2>2. Taken(kept, assigned, occupied[k])
    BY DEF Occupied, n
  <2>3. own(k) \in Heading
    BY <2>2, AssigningFacts DEF Taken
  <2>4. QED
    BY <2>2, <2>3, BindsFacts
<1>11. last.do = "order" /\ last.sections = kept /\ last.rules = scope.rules /\ last.path = Now.path
  BY DEF OrderTask
<1>12. FitsTask(last)'
  <2>1. Now.path \in Seq(Nat)
    BY ListedAreUntouched
  <2>2. FitsTask(last)
    BY <1>11, <2>1, AssigningFacts DEF FitsTask, Assigning
  <2>3. Growing
    BY BindsFacts DEF Growing
  <2>4. QED
    BY <2>2, <2>3, FitsStays
<1>13. /\ \A g \in Lists!ToSet(kept) : g \in Listed(agenda[1])
       /\ \A g \in Heading : Newly(g) => g \in Lists!ToSet(kept)
  <2>1. \A g \in Lists!ToSet(kept) : g \in Listed(agenda[1])
    BY ListedAreUntouched DEF Assigning
  <2>2. ASSUME NEW g \in Heading, Newly(g) PROVE g \in Lists!ToSet(kept)
    <3>1. PICK i : Taken(kept, assigned, i) /\ kept[i] = g
      BY <2>2, BindsFacts
    <3>2. QED
      BY <3>1, AssigningFacts DEF Taken
  <2>3. QED
    BY <2>1, <2>2
<1>14. /\ tasks \in Seq(Lists!ToSet(tasks))
       /\ \A p \in DOMAIN tasks : \/ p \in DOMAIN flat /\ tasks[p] = flat[p]
                                  \/ tasks[p] = last
       /\ \A p \in DOMAIN tasks : p \in DOMAIN flat => tasks[p] = flat[p]
       /\ \A p, q \in DOMAIN tasks : p \notin DOMAIN flat /\ q \notin DOMAIN flat => p = q
  <2> DEFINE m == Len(flat)  U == T \union {last}
  <2>1. flat \in Seq(T) /\ m \in Nat /\ DOMAIN flat = 1 .. m
    BY <1>4
  <2> HIDE DEF m
  <2>2. flat \in Seq(U) /\ <<last>> \in Seq(U)
    BY <2>1
  <2> HIDE DEF U
  <2>3. Len(<<last>>) = 1 /\ <<last>>[1] = last
    OBVIOUS
  <2> DEFINE e == <<last>>
  <2>4. e \in Seq(U) /\ Len(e) = 1 /\ e[1] = last /\ tasks = Joined(flat, e)
    BY <1>5, <2>2, <2>3
  <2> HIDE DEF e
  <2>5. tasks \in Seq(U) /\ JoinOf(flat, e, tasks)
    BY <2>2, <2>4, JoinedFacts
  <2>6. /\ Len(tasks) = m + 1
        /\ \A p \in 1 .. m : tasks[p] = flat[p]
        /\ tasks[m + 1] = last
    <3>1. 1 \in 1 .. Len(e)
      BY <2>4
    <3>2. QED
      BY <2>4, <2>5, <3>1 DEF JoinOf, m
  <2>7. DOMAIN tasks = 1 .. m + 1
    BY <2>5, <2>6
  <2>8. \A p \in DOMAIN tasks : p \in 1 .. m \/ p = m + 1
    BY <2>1, <2>7
  <2>9. tasks \in Seq(Lists!ToSet(tasks))
    BY <2>5, SeqIsSeq DEF IsSeq
  <2>10. \A p, q \in DOMAIN tasks : p \notin DOMAIN flat /\ q \notin DOMAIN flat => p = q
    BY <2>1, <2>8
  <2>11. QED
    BY <2>1, <2>6, <2>8, <2>9, <2>10
<1>15. Listed(last) = {}
  BY <1>11 DEF Listed
<1>16. BindingTasks(tasks)
  <2>1. \A p \in DOMAIN tasks : tasks[p].do \in {"content", "capture", "scope", "order"}
    BY <1>8, <1>11, <1>14 DEF VisitOf
  <2>2. ASSUME NEW p \in DOMAIN tasks, NEW g \in Listed(tasks[p])
        PROVE  g \in Heading /\ Parent(g) \in Heading /\ Newly(Parent(g)) /\ Admits(level[Parent(g)], g)
    <3>1. p \in DOMAIN flat /\ g \in Listed(flat[p])
      BY <1>14, <1>15, <2>2
    <3>2. /\ from[p] \in 1 .. n
          /\ g \in Heading /\ Parent(g) = own(from[p]) /\ Admits(level[own(from[p])], g)
      BY <1>8, <3>1 DEF VisitOf
    <3> HIDE DEF own
    <3>3. QED
      BY <1>10, <3>2
  <2>3. ASSUME NEW p \in DOMAIN tasks, NEW q \in DOMAIN tasks,
               NEW g \in Listed(tasks[p]), NEW h \in Listed(tasks[q]), Parent(g) = Parent(h)
        PROVE  p = q
    <3>1. p \in DOMAIN flat /\ g \in Listed(flat[p]) /\ q \in DOMAIN flat /\ h \in Listed(flat[q])
      BY <1>14, <1>15, <2>3
    <3>2. QED
      BY <1>9, <2>3, <3>1
  <2>4. ASSUME NEW p \in DOMAIN tasks, tasks[p].do = "order"
        PROVE  tasks[p].sections = kept
    BY <1>8, <1>11, <1>14, <2>4 DEF VisitOf
  <2>5. QED
    BY <1>13, <2>1, <2>2, <2>3, <2>4 DEF BindingTasks
<1>17. \A t \in Lists!ToSet(tasks) : FitsTask(t)'
  <2>1. ASSUME NEW p \in DOMAIN tasks, NEW t, t = tasks[p] PROVE FitsTask(t)'
    <3>1. CASE p \in DOMAIN flat /\ tasks[p] = flat[p]
      <4>1. from[p] \in 1 .. n /\ t \in Lists!ToSet(ss[from[p]])
        BY <1>8, <2>1, <3>1
      <4>2. QED
        BY <1>2, <4>1
    <3>2. CASE tasks[p] = last
      BY <1>12, <2>1, <3>2
    <3>3. QED
      BY <1>14, <3>1, <3>2
  <2>2. QED
    BY <2>1 DEF Lists!ToSet
<1>18. \A k \in 1 .. n : own(k) \in Lists!ToSet(kept)
  <2>1. SUFFICES ASSUME NEW k \in 1 .. n PROVE own(k) \in Lists!ToSet(kept)
    OBVIOUS
  <2>2. Taken(kept, assigned, occupied[k])
    BY DEF Occupied, n
  <2>3. QED
    BY <2>2, AssigningFacts DEF Taken
<1>19. \A t, g, h : OfVisit(t, g) /\ OfVisit(t, h) => g = h
  <2>1. \A g, h : <<g>> = <<h>> => g = h
    OBVIOUS
  <2>2. QED
    BY <2>1 DEF OfVisit
<1>20. \A p \in DOMAIN tasks : \/ tasks[p].do = "order" /\ tasks[p].sections = kept
                               \/ \E h \in Lists!ToSet(kept) : OfVisit(tasks[p], h)
  <2> HIDE DEF own
  <2>1. QED
    BY <1>8, <1>11, <1>14, <1>18 DEF VisitOf
<1>21. \A p \in DOMAIN flat : flat[p].do # "order"
  BY <1>8 DEF VisitOf
<1>22. ASSUME NEW p \in DOMAIN tasks, NEW q \in DOMAIN tasks, tasks[p].do = "order", tasks[q].do = "order"
       PROVE  p = q
  <2>1. p \notin DOMAIN flat /\ q \notin DOMAIN flat
    BY <1>14, <1>22, <1>21
  <2>2. QED
    BY <1>14, <2>1
<1>23. ASSUME NEW p \in DOMAIN tasks, NEW q \in DOMAIN tasks, NEW h,
              OfVisit(tasks[p], h), OfVisit(tasks[q], h), tasks[p].do = tasks[q].do
       PROVE  p = q
  <2>1. tasks[p].do # "order" /\ tasks[q].do # "order"
    BY <1>23 DEF OfVisit
  <2>2. p \in DOMAIN flat /\ tasks[p] = flat[p] /\ q \in DOMAIN flat /\ tasks[q] = flat[q]
    BY <1>11, <1>14, <2>1
  <2>3. OfVisit(flat[p], own(from[p])) /\ OfVisit(flat[q], own(from[q])) /\ from[p] \in 1 .. n /\ from[q] \in 1 .. n
    BY <1>8, <2>2 DEF VisitOf
  <2>4. own(from[p]) = own(from[q])
    <3> HIDE DEF own
    <3>1. own(from[p]) = h /\ own(from[q]) = h
      BY <1>19, <1>23, <2>2, <2>3
    <3>2. QED
      BY <3>1
  <2>5. \A k \in 1 .. n : occupied[k] \in 1 .. Len(kept)
    BY DEF Occupied, Taken, n
  <2>6. occupied[from[p]] = occupied[from[q]]
    BY <2>3, <2>4, <2>5, AssigningFacts
  <2>7. from[p] = from[q]
    BY <2>3, <2>6 DEF Occupied, n
  <2>8. /\ at[p] \in 1 .. 3 /\ at[q] \in 1 .. 3
        /\ flat[p] = ss[from[p]][at[p]] /\ flat[q] = ss[from[q]][at[q]]
    BY <1>2, <1>7, <2>2 DEF VisitsOf
  <2>9. at[p] = at[q]
    <3>1. \A l, m \in 1 .. 3 : ss[from[p]][l].do = ss[from[p]][m].do => l = m
      BY <1>2, <2>3 DEF VisitsOf
    <3>2. ss[from[p]][at[p]].do = ss[from[p]][at[q]].do
      BY <1>23, <2>2, <2>7, <2>8
    <3>3. QED
      BY <2>8, <3>1, <3>2
  <2>10. QED
    BY <1>7, <2>2, <2>7, <2>9
<1>24. Visited(kept, tasks)
  <2>1. \A p, q \in DOMAIN tasks : \A h :
            OfVisit(tasks[p], h) /\ OfVisit(tasks[q], h) /\ tasks[p].do = tasks[q].do => p = q
    BY <1>23
  <2>2. \A p, q \in DOMAIN tasks : tasks[p].do = "order" /\ tasks[q].do = "order" => p = q
    BY <1>22
  <2>3. QED
    BY <1>20, <2>1, <2>2 DEF Visited
<1>25. QED
  BY <1>14, <1>16, <1>17, <1>24

(* The visits of a heading say what is in its branch, each its own part.    *)
LEMMA VisitSays ==
    ASSUME Typed, NEW h \in Sound, NEW t, OfVisit(t, h)
    PROVE  /\ Branching(t)
           /\ \A d : Says(t, d) =>
                 /\ OfNodes(d) /\ d.at # <<>> /\ d.at[1] \in Branch(h)
                 /\ t.do = "capture" => d.id = <<"invalid-value", "section">> /\ d.at = <<h>>
                 /\ t.do = "content" => d.id[2] \in {"block", "item"} /\ d.at[1] = h
                 /\ t.do = "scope" => Lacks(d) \/ d.at[1] # h
<1>1. h \in Heading /\ h \in Branch(h)
  BY BranchFacts DEF Sound
<1>2. Branching(t)
  BY ChildrenPart DEF Branching, OfVisit
<1>3. ASSUME NEW d, Says(t, d)
      PROVE  /\ OfNodes(d) /\ d.at # <<>> /\ d.at[1] \in Branch(h)
             /\ t.do = "capture" => d.id = <<"invalid-value", "section">> /\ d.at = <<h>>
             /\ t.do = "content" => d.id[2] \in {"block", "item"} /\ d.at[1] = h
             /\ t.do = "scope" => Lacks(d) \/ d.at[1] # h
  <2>1. CASE t.do = "capture"
    <3>1. d.id = <<"invalid-value", "section">> /\ d.at = <<h>>
      BY <1>3, <2>1 DEF Says, OfVisit
    <3>2. OfNodes(d)
      BY <3>1 DEF OfNodes, OfSections
    <3>3. QED
      BY <1>1, <2>1, <3>1, <3>2
  <2>2. CASE t.do = "content"
    <3>1. t.of = h /\ t.absence = <<h>>
      BY <2>2 DEF OfVisit
    <3>2. d.id[2] \in {"block", "item"} /\ (d.at = <<h>> \/ (d.at # <<>> /\ d.at[1] = h))
      BY <1>3, <2>2, <3>1 DEF Says
    <3>3. OfNodes(d) /\ d.at # <<>> /\ d.at[1] = h
      BY <3>2 DEF OfNodes
    <3>4. QED
      BY <1>1, <2>2, <3>2, <3>3
  <2>3. CASE t.do = "scope"
    <3>1. t.sections = ChildSections(h) /\ t.parent = <<h>>
      BY <2>3 DEF OfVisit
    <3>2. (Lacks(d) /\ d.at = <<h>>) \/ (OfNodes(d) /\ Within(ChildSections(h), d))
      BY <1>3, <2>3, <3>1 DEF Says
    <3>3. Lacks(d) => OfNodes(d)
      BY DEF Lacks, OfNodes, OfSections
    <3>4. Within(ChildSections(h), d) => d.at # <<>> /\ d.at[1] \in Branch(h) /\ d.at[1] # h
      BY WithinChildren
    <3>5. QED
      BY <1>1, <2>3, <3>2, <3>3, <3>4
  <2>4. QED
    BY <2>1, <2>2, <2>3 DEF OfVisit
<1>4. QED
  BY <1>2, <1>3

(* Visits of different kinds have nothing to say in common.                 *)
LEMMA VisitTasksPart ==
    ASSUME Typed, NEW h \in Sound, NEW t, OfVisit(t, h), NEW u, OfVisit(u, h), NEW d, Says(t, d), Says(u, d)
    PROVE  t.do = u.do
<1>1. \A x : OfVisit(x, h) /\ Says(x, d) =>
          /\ x.do = "capture" => d.id = <<"invalid-value", "section">> /\ d.at = <<h>>
          /\ x.do = "content" => d.id[2] \in {"block", "item"} /\ d.at[1] = h
          /\ x.do = "scope" => Lacks(d) \/ d.at[1] # h
  BY VisitSays
<1>2. t.do \in {"capture", "content", "scope"} /\ u.do \in {"capture", "content", "scope"}
  BY DEF OfVisit
<1>3. Lacks(d) => d.id[2] = "section" /\ d.id # <<"invalid-value", "section">>
  BY DEF Lacks
<1>4. d.at = <<h>> => d.at[1] = h
  OBVIOUS
<1>5. d.id = <<"invalid-value", "section">> => d.id[2] = "section"
  OBVIOUS
<1>6. QED
  BY <1>1, <1>2, <1>3, <1>4, <1>5

(* A scope says its own part of what is in its branches, and leaves the     *)
(* rest to the visits and the order.                                        *)
LEMMA ScopeVoices ==
    ASSUME Walking, Voicing, Doing("scope"), Walking', UNCHANGED input,
           NEW kept, Lists!ToSet(kept) \subseteq Lists!ToSet(Now.sections),
           NEW tasks, Visited(kept, tasks), Continued(tasks),
           NEW D, Extended(D),
           \A d \in D : \/ \E h \in Heading : Judges(d, h)
                        \/ Lacks(d) /\ d.at = Now.parent
                        \/ d.id = <<"too-many", "section">> /\ \E h \in Lists!ToSet(kept) : d.at = <<h>>
    PROVE  Voicing'
<1>1. /\ Typed /\ 1 \in DOMAIN agenda /\ Now = agenda[1] /\ Now.do = "scope" /\ Now.parent \in Anchor
      /\ \A h \in Lists!ToSet(kept) : h \in Sound /\ h \in Lists!ToSet(Now.sections) /\ h \in Branch(h)
  <2>1. /\ 1 \in DOMAIN agenda /\ Now = agenda[1] /\ Now.parent \in Anchor
        /\ \A h \in Lists!ToSet(Now.sections) : h \in Sound
    BY ListedAreUntouched
  <2>2. Now.do = "scope"
    BY DEF Doing, Now
  <2>3. Typed
    BY DEF Walking
  <2>4. \A h \in Sound : h \in Branch(h)
    BY <2>3, BranchFacts DEF Sound
  <2>5. QED
    BY <2>1, <2>2, <2>3, <2>4
<1>2. Parted(Now.sections, Now.parent)
  BY <1>1 DEF Voicing, Branching
<1>3. \A g, h \in Lists!ToSet(kept) : \A p : p \in Branch(g) /\ p \in Branch(h) => g = h
  BY <1>1, <1>2 DEF Parted
<1>4. \A h \in Lists!ToSet(kept) : \A p \in Branch(h) : Now.parent # <<p>>
  BY <1>1, <1>2 DEF Parted
<1>5. /\ \A d : Lacks(d) /\ d.at = Now.parent => Says(agenda[1], d)
      /\ \A d : OfNodes(d) /\ Within(Now.sections, d) => Says(agenda[1], d)
      /\ \A d : Lacks(d) => d.id # <<"order-violation", "section">> /\ d.id # <<"too-many", "section">>
      /\ \A d : d.id \in {<<"order-violation", "section">>, <<"too-many", "section">>} => OfNodes(d)
  <2>1. \A d : Lacks(d) /\ d.at = Now.parent => Says(Now, d)
    BY <1>1 DEF Says
  <2>2. \A d : OfNodes(d) /\ Within(Now.sections, d) => Says(Now, d)
    BY <1>1 DEF Says
  <2>3. \A d : Lacks(d) => d.id # <<"order-violation", "section">> /\ d.id # <<"too-many", "section">>
    BY DEF Lacks
  <2>4. \A d : d.id \in {<<"order-violation", "section">>, <<"too-many", "section">>} => OfNodes(d)
    BY DEF OfNodes, OfSections
  <2>5. QED
    BY <1>1, <2>1, <2>2, <2>3, <2>4
<1>6. \A d, h : d.at = <<h>> => d.at # <<>> /\ d.at[1] = h
  OBVIOUS
<1>7. \A h \in Lists!ToSet(kept) : \A d :
          /\ d.at # <<>> /\ d.at[1] \in Branch(h) => Within(Now.sections, d)
          /\ d.at = <<h>> => Within(Now.sections, d)
  BY <1>1, <1>6 DEF Within
<1>8. \A d \in D : (\E h \in Heading : Judges(d, h)) \/ Says(agenda[1], d)
  <2>1. ASSUME NEW d \in D, d.id = <<"too-many", "section">>, NEW h \in Lists!ToSet(kept), d.at = <<h>>
        PROVE  Says(agenda[1], d)
    <3>1. OfNodes(d)
      BY <1>5, <2>1
    <3>2. Within(Now.sections, d)
      BY <1>7, <2>1
    <3>3. QED
      BY <1>5, <3>1, <3>2
  <2>2. QED
    BY <1>5, <2>1
<1>9. ASSUME NEW k \in DOMAIN tasks, tasks[k].do = "order", tasks[k].sections = kept
      PROVE  /\ Branching(tasks[k])
             /\ \A d : Says(tasks[k], d) => /\ Says(agenda[1], d) /\ d \notin D
                                            /\ d.id = <<"order-violation", "section">>
                                            /\ \E h \in Lists!ToSet(kept) : d.at = <<h>>
  <2>1. Branching(tasks[k])
    BY <1>9 DEF Branching
  <2>2. ASSUME NEW d, Says(tasks[k], d)
        PROVE  d.id = <<"order-violation", "section">> /\ \E h \in Lists!ToSet(kept) : d.at = <<h>>
    BY <1>9, <2>2 DEF Says
  <2>3. ASSUME NEW d, Says(tasks[k], d) PROVE Says(agenda[1], d)
    <3>1. OfNodes(d)
      BY <2>2, <2>3 DEF OfNodes, OfSections
    <3>2. Within(Now.sections, d)
      BY <1>7, <2>2, <2>3
    <3>3. QED
      BY <1>5, <3>1, <3>2
  <2>4. ASSUME NEW d, Says(tasks[k], d) PROVE d \notin D
    <3>1. d.id = <<"order-violation", "section">> /\ ~Lacks(d) /\ d.id # <<"too-many", "section">>
      BY <1>5, <2>2, <2>4
    <3>2. \A h : ~Judges(d, h)
      BY <2>4, NobodySays DEF Judges
    <3>3. QED
      BY <3>1, <3>2
  <2>5. QED
    BY <2>1, <2>2, <2>3, <2>4
<1>10. ASSUME NEW k \in DOMAIN tasks, NEW h \in Lists!ToSet(kept), OfVisit(tasks[k], h)
       PROVE  /\ Branching(tasks[k])
              /\ \A d : Says(tasks[k], d) => /\ Says(agenda[1], d) /\ d \notin D
                                             /\ d.at # <<>> /\ d.at[1] \in Branch(h)
                                             /\ \A g : d.at = <<g>> => d.id # <<"order-violation", "section">> \/ g # h
  <2>1. Branching(tasks[k])
    BY <1>1, <1>10, VisitSays
  <2>2. ASSUME NEW d, Says(tasks[k], d)
        PROVE  /\ OfNodes(d) /\ d.at # <<>> /\ d.at[1] \in Branch(h)
               /\ \/ d.id = <<"invalid-value", "section">>
                  \/ d.id[2] \in {"block", "item"}
                  \/ Lacks(d)
                  \/ d.at[1] # h
    <3>1. /\ OfNodes(d) /\ d.at # <<>> /\ d.at[1] \in Branch(h)
          /\ tasks[k].do = "capture" => d.id = <<"invalid-value", "section">>
          /\ tasks[k].do = "content" => d.id[2] \in {"block", "item"}
          /\ tasks[k].do = "scope" => Lacks(d) \/ d.at[1] # h
      BY <1>1, <1>10, <2>2, VisitSays
    <3>2. QED
      BY <1>10, <3>1 DEF OfVisit
  <2>3. ASSUME NEW d, Says(tasks[k], d) PROVE Says(agenda[1], d)
    BY <1>5, <1>7, <2>2, <2>3
  <2>4. ASSUME NEW d, Says(tasks[k], d), d.id \in {<<"order-violation", "section">>, <<"too-many", "section">>}
        PROVE  d.at # <<h>>
    <3>1. d.id # <<"invalid-value", "section">> /\ d.id[2] \notin {"block", "item"}
      BY <2>4
    <3>2. d.at[1] # h
      BY <1>5, <2>2, <2>4, <3>1
    <3>3. QED
      BY <3>2
  <2>5. ASSUME NEW d, Says(tasks[k], d) PROVE d \notin D
    <3>1. \A g : ~Judges(d, g)
      BY <2>5, NobodySays DEF Judges
    <3>2. d.at # Now.parent
      <4>1. Now.parent = <<>> \/ \E p : Now.parent = <<p>>
        BY <1>1 DEF Anchor
      <4>2. d.at # <<>> /\ d.at[1] \in Branch(h)
        BY <2>2, <2>5
      <4>3. QED
        BY <1>4, <1>6, <4>1, <4>2
    <3>3. ASSUME NEW g \in Lists!ToSet(kept), d.at = <<g>>, d.id = <<"too-many", "section">> PROVE FALSE
      <4>1. g \in Branch(h) /\ g \in Branch(g)
        BY <1>1, <2>2, <2>5, <3>3
      <4>2. g = h
        BY <1>3, <4>1
      <4>3. QED
        BY <2>4, <2>5, <3>3, <4>2
    <3>4. QED
      BY <3>1, <3>2, <3>3
  <2>6. QED
    BY <2>1, <2>2, <2>3, <2>4, <2>5
<1>11. ASSUME NEW k \in DOMAIN tasks
       PROVE  \/ tasks[k].do = "order" /\ tasks[k].sections = kept
              \/ \E h \in Lists!ToSet(kept) : OfVisit(tasks[k], h)
  BY DEF Visited
<1>12. \A k \in DOMAIN tasks : /\ Branching(tasks[k])
                               /\ \A d : Says(tasks[k], d) => Says(agenda[1], d) /\ d \notin D
  BY <1>9, <1>10, <1>11
<1>13. ASSUME NEW k \in DOMAIN tasks, NEW l \in DOMAIN tasks, NEW d, Says(tasks[k], d), Says(tasks[l], d),
              tasks[k].do = "order", tasks[k].sections = kept, NEW h \in Lists!ToSet(kept), OfVisit(tasks[l], h)
       PROVE  FALSE
  <2>1. PICK g \in Lists!ToSet(kept) : d.at = <<g>> /\ d.id = <<"order-violation", "section">>
    BY <1>9, <1>13
  <2>2. g \in Branch(h) /\ g # h
    BY <1>10, <1>13, <2>1
  <2>3. QED
    BY <1>1, <1>3, <2>2
<1>14. ASSUME NEW k \in DOMAIN tasks, NEW l \in DOMAIN tasks, NEW d, Says(tasks[k], d), Says(tasks[l], d)
       PROVE  k = l
  <2>1. CASE tasks[k].do = "order" /\ tasks[l].do = "order"
    BY <2>1 DEF Visited
  <2>2. CASE \E g \in Lists!ToSet(kept) : OfVisit(tasks[k], g)
    <3>1. PICK g \in Lists!ToSet(kept) : OfVisit(tasks[k], g)
      BY <2>2
    <3>2. CASE tasks[l].do = "order" /\ tasks[l].sections = kept
      BY <1>13, <1>14, <3>1, <3>2
    <3>3. CASE \E h \in Lists!ToSet(kept) : OfVisit(tasks[l], h)
      <4>1. PICK h \in Lists!ToSet(kept) : OfVisit(tasks[l], h)
        BY <3>3
      <4>2. d.at[1] \in Branch(g) /\ d.at[1] \in Branch(h)
        BY <1>10, <1>14, <3>1, <4>1
      <4>3. g = h
        BY <1>3, <4>2
      <4>4. tasks[k].do = tasks[l].do
        BY <1>1, <1>14, <3>1, <4>1, <4>3, VisitTasksPart
      <4>5. QED
        BY <3>1, <4>1, <4>3, <4>4 DEF Visited
    <3>4. QED
      BY <1>11, <3>2, <3>3
  <2>3. CASE tasks[k].do = "order" /\ tasks[k].sections = kept /\ \E h \in Lists!ToSet(kept) : OfVisit(tasks[l], h)
    BY <1>13, <1>14, <2>3
  <2>4. QED
    BY <1>11, <2>1, <2>2, <2>3
<1>15. QED
  BY <1>1, <1>8, <1>12, <1>14, VoicingStep

(* What is said of a scope that is bound.                                   *)
ScopeSays(scope, kept, names, assigned, anchors) ==
    RefusedByGuard(scope, Now.sections, Now.path)
    \union LeftOver("section", scope.rules, names, assigned, anchors, By("rule", Now.path))
    \union CardinalityOf("section", scope.rules, assigned, anchors, Now.parent, "rule", Now.path)

(* A scope judges only its own untouched headings, none it binds, and each  *)
(* once.                                                                    *)
LEMMA ScopeSaysFacts ==
    ASSUME Walking, Doing("scope"),
           NEW scope, scope = Now.scope, NEW kept, NEW assigned, Assigning(scope, kept, assigned), Binds(kept, assigned),
           NEW names, NEW anchors, \A i \in 1 .. Len(kept) : anchors[i] = <<kept[i]>>,
           NEW D, D = ScopeSays(scope, kept, names, assigned, anchors)
    PROVE  /\ IsFiniteSet(D)
           /\ \A d \in D : Placed(d) /\ \A h : ~OrderViolation(d, h)
           /\ \A d \in D, h \in Heading : Judges(d, h) => Untouched(h) /\ ~Newly(h)
           /\ \A d, e \in D, h \in Heading : Judges(d, h) /\ Judges(e, h) => d = e
           /\ \A d \in D : \/ \E h \in Heading : Judges(d, h)
                           \/ Lacks(d) /\ d.at = Now.parent
                           \/ d.id = <<"too-many", "section">> /\ \E h \in Lists!ToSet(kept) : d.at = <<h>>
<1> DEFINE n     == Len(kept)
           guard == RefusedByGuard(scope, Now.sections, Now.path)
           over  == LeftOver("section", scope.rules, names, assigned, anchors, By("rule", Now.path))
           short == CardinalityOf("section", scope.rules, assigned, anchors, Now.parent, "rule", Now.path)
<1>1. D = guard \union over \union short
  BY DEF ScopeSays
<1>2. /\ n \in Nat /\ DOMAIN assigned = 1 .. n /\ IsSeq(scope.rules)
      /\ \A i \in 1 .. n : kept[i] \in Sound /\ kept[i] \in Heading /\ kept[i] \in Lists!ToSet(kept)
      /\ \A i, j \in 1 .. n : kept[i] = kept[j] => i = j
  BY AssigningFacts
<1>3. \A h \in Lists!ToSet(Now.sections) : Untouched(h) /\ h \in Sound
  BY ListedAreUntouched
<1>4. \A h \in Lists!ToSet(kept) : ~Guarded(scope, h) /\ h \in Lists!ToSet(Now.sections)
  BY DEF Assigning
<1>5. \A h \in Heading : Newly(h) <=> \E i : Taken(kept, assigned, i) /\ kept[i] = h
  BY BindsFacts
<1>6. \A g, h : <<g>> = <<h>> => g = h
  OBVIOUS
<1> HIDE DEF n
<1>7. /\ IsFiniteSet(guard)
      /\ \A d \in guard : \E h \in Lists!ToSet(Now.sections) :
            Guarded(scope, h) /\ d.at = <<h>> /\ d.id = <<"not-allowed", "section">>
      /\ \A d, e \in guard : d.at = e.at => d = e
  BY GuardsSay
<1>8. /\ IsFiniteSet(over)
      /\ \A d \in over : \E i \in 1 .. n : /\ assigned[i] = None /\ d.at = anchors[i]
                                           /\ d.id \in {<<"unexpected", "section">>, <<"misplaced", "section">>}
      /\ \A d, e \in over : d.at = e.at => d = e
  <2>1. \A i, j \in 1 .. n : anchors[i] = anchors[j] => i = j
    BY <1>2, <1>6 DEF n
  <2>2. IsFiniteSet(over)
    BY <1>2, LeftOverFacts
  <2>3. \A d \in over : \E i \in 1 .. n : /\ assigned[i] = None /\ d.at = anchors[i]
                                          /\ d.id \in {<<"unexpected", "section">>, <<"misplaced", "section">>}
    BY <1>2, LeftOverFacts
  <2>4. \A d, e \in over : d.at = e.at => d = e
    BY <1>2, <2>1, LeftOverFacts
  <2>5. QED
    BY <2>2, <2>3, <2>4
<1>9. /\ IsFiniteSet(short)
      /\ \A d \in short : \/ d.at = Now.parent /\ d.id \in {<<"missing", "section">>, <<"too-few", "section">>}
                          \/ d.id = <<"too-many", "section">> /\ \E i \in 1 .. n : d.at = anchors[i]
  <2>1. IsFiniteSet(short) /\ \A d \in short : OfCount(d, "section", Now.parent, anchors, n)
    BY <1>2, CardinalityOfFacts
  <2> HIDE DEF short
  <2>2. QED
    BY <2>1 DEF OfCount
<1> HIDE DEF guard, over, short
<1>10. IsFiniteSet(D)
  <2>1. IsFiniteSet(guard \union over)
    BY <1>7, <1>8, FS_Union
  <2>2. QED
    BY <1>1, <1>9, <2>1, FS_Union
<1>11. \A i \in 1 .. n : anchors[i] = <<kept[i]>> /\ anchors[i] \in Anchor
  BY <1>2, AnchorsArePlaced DEF n
<1>12. ASSUME NEW d \in D PROVE Placed(d) /\ \A h : ~OrderViolation(d, h)
  <2>1. CASE d \in guard
    <3>1. PICK h \in Lists!ToSet(Now.sections) : d.at = <<h>> /\ d.id = <<"not-allowed", "section">>
      BY <1>7, <2>1
    <3>2. d.at \in Anchor
      BY <1>3, <3>1, AnchorsArePlaced
    <3>3. Placed(d)
      BY <3>2, AnchorsArePlaced
    <3>4. QED
      BY <3>1, <3>3, OtherWords
  <2>2. CASE d \in over
    <3>1. d.at \in Anchor /\ \E what : d.id = <<what, "section">> /\ what # "order-violation"
      BY <1>8, <1>11, <2>2
    <3>2. Placed(d)
      BY <3>1, AnchorsArePlaced
    <3>3. QED
      BY <3>1, <3>2, OtherWords
  <2>3. CASE d \in short
    <3>1. Now.parent \in Anchor
      BY ListedAreUntouched
    <3>2. d.at \in Anchor /\ \E what : d.id = <<what, "section">> /\ what # "order-violation"
      BY <1>9, <1>11, <2>3, <3>1
    <3>3. Placed(d)
      BY <3>2, AnchorsArePlaced
    <3>4. QED
      BY <3>2, <3>3, OtherWords
  <2>4. QED
    BY <1>1, <2>1, <2>2, <2>3
<1>13. ASSUME NEW d \in D, NEW h \in Heading, Judges(d, h)
       PROVE  \/ d \in guard /\ Guarded(scope, h) /\ h \in Lists!ToSet(Now.sections)
              \/ d \in over /\ \E i \in 1 .. n : assigned[i] = None /\ kept[i] = h
  <2>1. d.at = <<h>> /\ d.id \in Judging
    BY <1>13 DEF Judges
  <2>2. d \notin short
    BY <1>9, <2>1, OtherWords
  <2>3. CASE d \in guard
    BY <1>6, <1>7, <2>1, <2>3
  <2>4. CASE d \in over
    BY <1>6, <1>8, <1>11, <2>1, <2>4
  <2>5. QED
    BY <1>1, <2>2, <2>3, <2>4
<1>14. ASSUME NEW d \in D, NEW h \in Heading, Judges(d, h) PROVE Untouched(h) /\ ~Newly(h)
  <2>1. CASE Guarded(scope, h) /\ h \in Lists!ToSet(Now.sections)
    <3>1. h \notin Lists!ToSet(kept)
      BY <1>4, <2>1
    <3>2. ~Newly(h)
      BY <1>2, <1>5, <3>1 DEF Taken, n
    <3>3. QED
      BY <1>3, <2>1, <3>2
  <2>2. CASE \E i \in 1 .. n : assigned[i] = None /\ kept[i] = h
    <3>1. PICK i \in 1 .. n : assigned[i] = None /\ kept[i] = h
      BY <2>2
    <3>2. ~Newly(h)
      BY <1>2, <1>5, <3>1 DEF Taken, n
    <3>3. QED
      BY <1>2, <1>3, <1>4, <3>1, <3>2
  <2>3. QED
    BY <1>13, <1>14, <2>1, <2>2
<1>15. ASSUME NEW d \in D, NEW e \in D, NEW h \in Heading, Judges(d, h), Judges(e, h) PROVE d = e
  <2>1. d.at = e.at
    BY <1>15 DEF Judges
  <2>2. ~(Guarded(scope, h) /\ \E i \in 1 .. n : kept[i] = h)
    BY <1>2, <1>4
  <2>3. (d \in guard /\ e \in guard) \/ (d \in over /\ e \in over)
    BY <1>13, <1>15, <2>2
  <2>4. QED
    BY <1>7, <1>8, <2>1, <2>3
<1>16. ASSUME NEW d \in D
       PROVE  \/ \E h \in Heading : Judges(d, h)
              \/ Lacks(d) /\ d.at = Now.parent
              \/ d.id = <<"too-many", "section">> /\ \E h \in Lists!ToSet(kept) : d.at = <<h>>
  <2>1. CASE d \in guard
    <3>1. PICK h \in Lists!ToSet(Now.sections) : d.at = <<h>> /\ d.id = <<"not-allowed", "section">>
      BY <1>7, <2>1
    <3>2. h \in Heading
      BY <1>3 DEF Sound
    <3>3. Judges(d, h)
      BY <3>1 DEF Judges, Judging
    <3>4. QED
      BY <3>2, <3>3
  <2>2. CASE d \in over
    <3>1. PICK i \in 1 .. n : /\ d.at = anchors[i]
                              /\ d.id \in {<<"unexpected", "section">>, <<"misplaced", "section">>}
      BY <1>8, <2>2
    <3>2. d.at = <<kept[i]>> /\ kept[i] \in Heading
      BY <1>2, <1>11, <3>1
    <3>3. Judges(d, kept[i])
      BY <3>1, <3>2 DEF Judges, Judging
    <3>4. QED
      BY <3>2, <3>3
  <2>3. CASE d \in short
    BY <1>2, <1>9, <1>11, <2>3 DEF Lacks
  <2>4. QED
    BY <1>1, <2>1, <2>2, <2>3
<1>17. QED
  BY <1>10, <1>12, <1>14, <1>15, <1>16

(* A scope that is bound keeps the invariant,                               *)
LEMMA FullScopeKeeps ==
    ASSUME Walking, Doing("scope"), UNCHANGED <<input, captured, outcome>>,
           NEW scope, scope = Now.scope, NEW kept, NEW assigned, Assigning(scope, kept, assigned), Binds(kept, assigned),
           NEW names, NEW anchors, \A i \in 1 .. Len(kept) : anchors[i] = <<kept[i]>>,
           NEW occupied, Occupied(kept, assigned, occupied),
           Emit(ScopeSays(scope, kept, names, assigned, anchors)),
           Continue(Lists!FlattenSeq(Visits(scope, kept, assigned, occupied))
                    \o <<OrderTask(kept, scope.rules, Now.path)>>)
    PROVE  Walking' /\ (Voicing => Voicing')
<1>1. PICK D : D = ScopeSays(scope, kept, names, assigned, anchors)
  OBVIOUS
<1>2. PICK ss : ss = Visits(scope, kept, assigned, occupied)
  OBVIOUS
<1>3. PICK flat : flat = Lists!FlattenSeq(ss)
  OBVIOUS
<1>4. PICK last : last = OrderTask(kept, scope.rules, Now.path)
  OBVIOUS
<1>5. PICK tasks : tasks = flat \o <<last>>
  OBVIOUS
<1>6. Emit(D) /\ Continue(tasks)
  BY <1>1, <1>2, <1>3, <1>4, <1>5
<1>7. Opened /\ IsSeq(agenda) /\ IsSeq(pending) /\ agenda # <<>> /\ 1 \in DOMAIN agenda
      /\ Listed(agenda[1]) = Lists!ToSet(Now.sections)
  BY ListedAreUntouched
<1>8. /\ IsFiniteSet(D)
      /\ \A d \in D : Placed(d) /\ \A h : ~OrderViolation(d, h)
      /\ \A d \in D, h \in Heading : Judges(d, h) => Untouched(h) /\ ~Newly(h)
      /\ \A d, e \in D, h \in Heading : Judges(d, h) /\ Judges(e, h) => d = e
      /\ \A d \in D : \/ \E h \in Heading : Judges(d, h)
                      \/ Lacks(d) /\ d.at = Now.parent
                      \/ d.id = <<"too-many", "section">> /\ \E h \in Lists!ToSet(kept) : d.at = <<h>>
  BY <1>1, ScopeSaysFacts
<1>9. Extended(D)
  BY <1>6, <1>7, <1>8, EmitExtends
<1>10. /\ BindingTasks(tasks) /\ tasks \in Seq(Lists!ToSet(tasks)) /\ Visited(kept, tasks)
       /\ \A t \in Lists!ToSet(tasks) : FitsTask(t)'
  BY <1>2, <1>3, <1>4, <1>5, ScopeTasksFacts
<1>11. Continued(tasks)
  BY <1>6, <1>7, <1>10, ContinueMoves
<1>12. /\ DOMAIN bound' = Heading /\ \A h \in Heading : bound[h] # None => bound'[h] = bound[h]
       /\ \A h \in Heading : Newly(h) => h \in Listed(agenda[1])
  <2>1. /\ DOMAIN bound' = Heading /\ \A h \in Heading : bound[h] # None => bound'[h] = bound[h]
        /\ \A h \in Heading : Newly(h) <=> \E i : Taken(kept, assigned, i) /\ kept[i] = h
    BY BindsFacts
  <2>2. \A i : Taken(kept, assigned, i) => kept[i] \in Lists!ToSet(kept)
    BY AssigningFacts DEF Taken
  <2>3. Lists!ToSet(kept) \subseteq Listed(agenda[1])
    BY <1>7 DEF Assigning
  <2>4. QED
    BY <2>1, <2>2, <2>3
<1>13. Walking'
  BY <1>7, <1>8, <1>9, <1>10, <1>11, <1>12, BindingStep
<1>14. Voicing => Voicing'
  <2>1. Lists!ToSet(kept) \subseteq Lists!ToSet(Now.sections)
    BY DEF Assigning
  <2>2. QED
    BY <1>8, <1>9, <1>10, <1>11, <1>13, <2>1, ScopeVoices
<1>15. QED
  BY <1>13, <1>14

(* What the guards retain of a scope is part of it, and unguarded.          *)
LEMMA RetainedFacts ==
    ASSUME Walking, Doing("scope"), NEW scope
    PROVE  /\ SoundSections(Retained(scope, Now.sections))
           /\ Lists!ToSet(Retained(scope, Now.sections)) \subseteq Lists!ToSet(Now.sections)
           /\ \A h \in Lists!ToSet(Retained(scope, Now.sections)) : ~Guarded(scope, h)
<1> DEFINE K == {h \in Heading : /\ ~Guarded(scope, h)
                                 /\ scope.extras = "anywhere" => FirstAccepting(scope.rules, text[h].name) # None}
<1>1. Retained(scope, Now.sections) = Only(Now.sections, K)
  BY DEF Retained
<1>2. \A h \in K : ~Guarded(scope, h)
  OBVIOUS
<1> HIDE DEF K
<1>3. SoundSections(Now.sections)
  BY ListedAreUntouched
<1>4. Now.sections \in Seq(Heading) /\ Distinct(Now.sections) /\ Lists!ToSet(Now.sections) \subseteq Sound
  <2>1. Now.sections \in Seq(Sound) /\ Distinct(Now.sections) /\ Sound \subseteq Heading
    BY <1>3 DEF SoundSections, Sound
  <2>2. Lists!ToSet(Now.sections) \subseteq Sound
    BY <2>1, SeqIsSeq
  <2>3. QED
    BY <2>1, <2>2, SeqOfSet
<1>5. /\ SoundSections(Only(Now.sections, K))
      /\ Lists!ToSet(Only(Now.sections, K)) = Lists!ToSet(Now.sections) \cap K
  <2>1. Lists!ToSet(Now.sections) \cap K \subseteq Sound
    BY <1>4
  <2>2. QED
    BY <1>4, <2>1, AmongFacts
<1>6. QED
  BY <1>1, <1>2, <1>5

(* and so does every way to visit a scope.                                  *)
LEMMA ScopeKeeps ==
    ASSUME Walking, BindScope
    PROVE  Walking' /\ (Voicing => Voicing')
<1> DEFINE scope    == Now.scope
           kept     == Retained(scope, Now.sections)
           n        == Len(kept)
           names    == Names(kept)
           assigned == AssignScope(scope, names)
           anchors  == [i \in 1 .. n |-> <<kept[i]>>]
           some     == {i \in 1 .. n : assigned[i] # None}
           occupied == Only([i \in 1 .. n |-> i], some)
<1>1. Doing("scope") /\ UNCHANGED <<input, captured, values, outcome>>
  BY DEF BindScope
<1>2. /\ Opened /\ IsSeq(agenda) /\ IsSeq(pending) /\ agenda # <<>> /\ scope \in Grammars \union {None}
  BY <1>1, ListedAreUntouched
<1>3. CASE scope = None
  <2>1. Continue(<<>>) /\ UNCHANGED <<pending, bound>>
    BY <1>3 DEF BindScope
  <2>2. Extended({})
    BY <1>2, <2>1, SilenceExtends
  <2>3. Walking'
    BY <1>1, <1>2, <2>1, <2>2, EvaluatedStays, NoTasks, IdleStep
  <2>4. Voicing => Voicing'
    BY <1>1, <1>2, <2>1, <2>2, <2>3, LeafStep
  <2>5. QED
    BY <2>3, <2>4
<1>4. CASE scope # None /\ scope.mode = "guards_only"
  <2>1. Emit(RefusedByGuard(scope, Now.sections, Now.path)) /\ Continue(<<>>) /\ UNCHANGED bound
    BY <1>4 DEF BindScope
  <2>2. QED
    BY <1>1, <2>1, GuardedScopeKeeps
<1>5. CASE scope # None /\ scope.mode # "guards_only"
  <2>1. Emit(ScopeSays(scope, kept, names, assigned, anchors))
    BY <1>5 DEF BindScope, ScopeSays
  <2>2. Binds(kept, assigned)
    BY <1>5 DEF BindScope, Binds
  <2>3. Continue(Lists!FlattenSeq(Visits(scope, kept, assigned, occupied))
                 \o <<OrderTask(kept, scope.rules, Now.path)>>)
    BY <1>5 DEF BindScope, Visits
  <2>4. \A i \in 1 .. n : anchors[i] = <<kept[i]>>
    OBVIOUS
  <2>5. Len(names) = n /\ n \in Nat
    <3>1. n \in Nat
      BY <1>1, RetainedFacts DEF SoundSections
    <3> HIDE DEF kept
    <3>2. QED
      BY <3>1 DEF Names
  <2>6. scope \in Grammars /\ IsSeq(scope.rules)
    BY <1>2, <1>5, GrammarsNest
  <2> HIDE DEF scope, names, kept, anchors
  <2>7. Assigns(assigned, scope.rules, n)
    BY <2>5, <2>6, AssignInOrderFacts, AssignFirstFacts DEF AssignScope
  <2> HIDE DEF assigned
  <2>8. Assigning(scope, kept, assigned)
    BY <1>1, <2>6, <2>7, RetainedFacts DEF Assigning, kept
  <2>9. /\ occupied \in Seq(1 .. n) /\ Distinct(occupied) /\ Lists!ToSet(occupied) = (1 .. n) \cap some
    BY <2>5, NumbersFacts
  <2>10. \A i \in some : Taken(kept, assigned, i)
    BY DEF Taken
  <2> HIDE DEF occupied, some
  <2>11. Occupied(kept, assigned, occupied)
    <3>1. Len(occupied) \in Nat /\ DOMAIN occupied = 1 .. Len(occupied)
      BY <2>9
    <3>2. \A k \in 1 .. Len(occupied) : occupied[k] \in some
      BY <2>9, <3>1 DEF Lists!ToSet
    <3>3. QED
      BY <2>9, <2>10, <3>1, <3>2 DEF Occupied, Distinct
  <2>12. scope = Now.scope
    BY DEF scope
  <2> HIDE DEF n
  <2>13. \A i \in 1 .. Len(kept) : anchors[i] = <<kept[i]>>
    BY <2>4 DEF n
  <2>14. QED
    BY <1>1, <2>1, <2>2, <2>3, <2>8, <2>11, <2>12, <2>13, FullScopeKeeps
<1>6. QED
  BY <1>3, <1>4, <1>5

(* A step that only ends the walk keeps the invariant.                      *)
LEMMA QuietStep ==
    ASSUME Walking, UNCHANGED <<input, agenda, pending, bound, captured>>,
           outcome' \in {"running", "reported", "failed", "refused"}
    PROVE  Walking' /\ (Voicing => Voicing')
<1>1. /\ Heading' = Heading /\ Typed' = Typed /\ Sound' = Sound
      /\ \A h : Parent(h)' = Parent(h)
      /\ \A d : Placed(d)' = Placed(d)
  BY InputStays
<1>2. /\ level' = level /\ text' = text /\ schema' = schema /\ agenda' = agenda /\ pending' = pending
      /\ bound' = bound /\ captured' = captured
  BY DEF input
<1>3. \A t : FitsTask(t) => FitsTask(t)'
  BY <1>2, FitsStays DEF Growing
<1>4. \A h : Judgements(h)' = Judgements(h)
  BY <1>2 DEF Judgements
<1>5. \A h \in Heading : Reached(h) => Reached(h)'
  BY <1>2, ReachedStays DEF Growing, Walking
<1>6. (\A t : Listed(t)' = Listed(t)) /\ \A s : Lists!ToSet(s)' = Lists!ToSet(s)
  BY DEF Listed, Lists!ToSet
<1>7. \A d, h : OrderViolation(d, h)' = OrderViolation(d, h)
  BY DEF OrderViolation
<1>8. Shaped'
  <2>1. IsSeq(agenda)' /\ IsSeq(pending)'
    BY <1>2 DEF IsSeq, Walking, Shaped
  <2>2. \A t \in Lists!ToSet(agenda)' : FitsTask(t)'
    BY <1>2, <1>3 DEF Walking, Shaped
  <2>3. \A p \in Lists!ToSet(pending)' : FitsRecord(p)'
    BY <1>1, <1>2 DEF Walking, Shaped, FitsRecord
  <2>4. QED
    BY <1>1, <1>2, <2>1, <2>2, <2>3 DEF Walking, Shaped
<1>9. (Unopened \/ Opened)'
  <2>1. Unopened => Unopened'
    BY <1>1, <1>2, <1>4 DEF Unopened, Fresh
  <2>2. Opened => Opened'
    BY <1>2 DEF Opened
  <2>3. QED
    BY <2>1, <2>2 DEF Walking
<1>10. Refusing'
  BY <1>1, <1>2, <1>4 DEF Walking, Refusing
<1>11. ListedOnce'
  <2>1. \A k \in DOMAIN agenda : \A h \in Listed(agenda[k]) : h \in Heading
    BY ListedIsSound DEF Walking
  <2>2. QED
    BY <1>1, <1>2, <1>4, <1>5, <1>6, <2>1 DEF Walking, ListedOnce
<1>12. Apart'
  BY <1>1, <1>2, <1>4, <1>5 DEF Walking, Apart
<1>13. \A h : Alone(h)' = Alone(h)
  BY <1>1, <1>2, <1>6 DEF Alone
<1>14. EvaluatedOfBound'
  BY <1>1, <1>2 DEF Walking, EvaluatedOfBound
<1>15. OrderedAlone'
  <2>1. \A k \in DOMAIN agenda : agenda[k].do = "order" => \A h \in Lists!ToSet(agenda[k].sections) : h \in Heading
    BY OrderedIsSound DEF Walking
  <2>2. QED
    BY <1>1, <1>2, <1>5, <1>6, <1>13, <2>1 DEF Walking, OrderedAlone
<1>16. ViolatedAlone'
  BY <1>1, <1>2, <1>7, <1>13 DEF Walking, ViolatedAlone
<1>17. Voicing => Voicing'
  <2>1. (\A t, d : Says(t, d)' <=> Says(t, d)) /\ \A t : Branching(t)' <=> Branching(t)
    BY SaysStays
  <2>2. QED
    BY <1>2, <2>1 DEF Voicing, SaidOnce, Unsaid, OwnWords
<1>18. QED
  BY <1>17, <1>1, <1>8, <1>9, <1>10, <1>11, <1>12, <1>14, <1>15, <1>16 DEF Walking

(* A walk that gives up leaves nothing behind.                              *)
LEMMA AbandonKeeps ==
    ASSUME Walking, RefuseQuery \/ Exhaust
    PROVE  Walking' /\ (Voicing => Voicing')
<1>1. /\ UNCHANGED <<input, bound, captured>> /\ agenda' = <<>> /\ pending' = <<>>
      /\ outcome' \in {"refused", "failed"}
  BY DEF RefuseQuery, Exhaust
<1>2. /\ Heading' = Heading /\ Typed' = Typed /\ level' = level /\ schema' = schema /\ text' = text
  BY <1>1, InputStays DEF input
<1>3. \A h : Judgements(h)' = {}
  BY <1>1 DEF Judgements
<1>4. \A h \in Heading : Reached(h) => Reached(h)'
  BY <1>1, ReachedStays DEF Growing, Walking
<1>5. Shaped'
  <2>1. IsSeq(agenda)' /\ IsSeq(pending)' /\ Lists!ToSet(agenda)' = {} /\ Lists!ToSet(pending)' = {}
    BY <1>1 DEF IsSeq, Lists!ToSet
  <2>2. QED
    BY <1>1, <1>2, <2>1 DEF Walking, Shaped
<1>6. Opened' /\ ListedOnce' /\ OrderedAlone' /\ ViolatedAlone'
  BY <1>1 DEF Opened, ListedOnce, OrderedAlone, ViolatedAlone
<1>7. Refusing'
  BY <1>1, <1>2, <1>3 DEF Walking, Refusing
<1>8. Apart'
  BY <1>1, <1>2, <1>3, <1>4 DEF Walking, Apart
<1>9. EvaluatedOfBound'
  BY <1>1, <1>2 DEF Walking, EvaluatedOfBound
<1>10. Voicing'
  BY <1>1 DEF Voicing, SaidOnce, Unsaid, OwnWords
<1>11. QED
  BY <1>10, <1>2, <1>5, <1>6, <1>7, <1>8, <1>9 DEF Walking

(* The invariant holds when the walk starts,                                *)
LEMMA InitWalking ==
    ASSUME Init
    PROVE  Walking /\ Voicing
<1>1. PICK case \in Cases :
         /\ \E document \in case.documents :
               /\ level = document.level /\ text = document.text /\ preamble = document.preamble
               /\ frontmatter = document.frontmatter /\ disabled = document.disabled
         /\ schema \in case.schemas /\ allowSkipped \in case.skipping
  BY DEF Init
<1>2. PICK document \in case.documents :
         /\ level = document.level /\ text = document.text /\ preamble = document.preamble
         /\ frontmatter = document.frontmatter /\ disabled = document.disabled
  BY <1>1
<1>3. /\ agenda = <<Task("frontmatter"), Task("captures"), Task("levels"), Task("root")>>
      /\ pending = <<>> /\ bound = [h \in Heading |-> None] /\ captured = [h \in Heading |-> "unevaluated"]
      /\ outcome = "running"
  BY DEF Init
<1>4. Typed
  <2>1. /\ document.level \in Seq(Nat \ {0})
        /\ \A h \in 0 .. Len(document.level) :
              /\ IsSeq(document.preamble[h])
              /\ \A i \in DOMAIN document.preamble[h] :
                    document.preamble[h][i].items = None \/ IsSeq(document.preamble[h][i].items)
    BY <1>1, <1>2, CasesFit
  <2>2. /\ schema.shape \in {"outline", "untitled", "titled"}
        /\ schema.scope \in Grammars \union {None} /\ schema.content \in Contents \union {None}
        /\ IsSeq(schema.captures) /\ allowSkipped \in BOOLEAN
    BY <1>1, CasesFit
  <2>3. frontmatter.is = "mapping" => frontmatter \in MappingBlocks
    BY <1>1, <1>2 DEF MappingBlocks
  <2>4. QED
    BY <1>2, <2>1, <2>2, <2>3 DEF Typed
<1>5. \A h : Judgements(h) = {}
  BY <1>3 DEF Judgements
<1>6. \A k \in DOMAIN agenda : agenda[k].do \in Opening
  BY <1>3 DEF Task, Opening
<1>7. IsSeq(agenda)
  <2>1. ASSUME NEW a, NEW b, NEW c, NEW d, NEW s, s = <<a, b, c, d>> PROVE \E S : s \in Seq(S)
    <3>1. s \in Seq({a, b, c, d})
      BY <2>1
    <3>2. QED
      BY <3>1
  <2>2. \E S : agenda \in Seq(S)
    BY <1>3, <2>1
  <2>3. QED
    BY <2>2, SeqIsSeq
<1>8. IsSeq(pending) /\ Lists!ToSet(pending) = {}
  BY <1>3 DEF IsSeq, Lists!ToSet
<1>9. Shaped
  <2>1. \A t : t.do \in Opening => FitsTask(t)
    BY DEF FitsTask, Opening
  <2>2. \A t \in Lists!ToSet(agenda) : FitsTask(t)
    BY <1>6, <2>1 DEF Lists!ToSet
  <2>3. QED
    BY <1>3, <1>7, <1>8, <2>2 DEF Shaped
<1>10. \A h \in Heading : bound[h] = None /\ captured[h] = "unevaluated"
  BY <1>3
<1>11. Unopened
  BY <1>3, <1>5, <1>10 DEF Unopened, Fresh
<1>12. \A k \in DOMAIN agenda : agenda[k].do \notin {"refuse_titles", "order"} /\ Listed(agenda[k]) = {}
  BY <1>6 DEF Opening, Listed
<1>13. Refusing /\ ListedOnce /\ Apart /\ EvaluatedOfBound /\ OrderedAlone
  BY <1>5, <1>10, <1>12 DEF Refusing, ListedOnce, Apart, EvaluatedOfBound, OrderedAlone
<1>14. ViolatedAlone
  BY <1>3 DEF ViolatedAlone
<1>15. Voicing
  <2>1. \A k \in DOMAIN agenda : Branching(agenda[k])
    BY <1>6 DEF Branching, Opening
  <2>2. ASSUME NEW k \in DOMAIN agenda, NEW l \in DOMAIN agenda, NEW d, Says(agenda[k], d), Says(agenda[l], d)
        PROVE  agenda[k].do = agenda[l].do
    BY <1>6, <2>2 DEF Says, Opening, OfNodes, OfSections
  <2>3. \A k, l \in DOMAIN agenda : agenda[k].do = agenda[l].do => k = l
    BY <1>3 DEF Task
  <2>4. SaidOnce /\ Unsaid
    BY <1>3 DEF SaidOnce, Unsaid
  <2>5. OwnWords
    BY <2>2, <2>3 DEF OwnWords
  <2>6. QED
    BY <2>1, <2>4, <2>5 DEF Voicing
<1>16. QED
  BY <1>15, <1>4, <1>9, <1>11, <1>13, <1>14 DEF Walking

(* and every step of the walk keeps it.                                     *)
LEMMA NextWalking ==
    ASSUME Walking, [Next]_vars
    PROVE  Walking' /\ (Voicing => Voicing')
<1>1. CASE ValidateFrontmatter
  BY <1>1, FrontmatterKeeps
<1>2. CASE EvaluateCaptures
  BY <1>2, CapturesKeeps
<1>3. CASE ValidateSkippedLevels
  BY <1>3, LevelsKeeps
<1>4. CASE EnterOutline
  BY <1>4, OutlineKeeps
<1>5. CASE EnterUntitled
  BY <1>5, UntitledKeeps
<1>6. CASE RefuseTitles
  BY <1>6, RefuseKeeps
<1>7. CASE MissTitle
  BY <1>7, MissKeeps
<1>8. CASE EnterTitled
  BY <1>8, TitledKeeps
<1>9. CASE VisitContent
  BY <1>9, ContentKeeps
<1>10. CASE VisitItems
  BY <1>10, ItemsKeeps
<1>11. CASE BindScope
  BY <1>11, ScopeKeeps
<1>12. CASE BindRuleCaptures
  BY <1>12, CaptureKeeps
<1>13. CASE ValidateValueOrder
  BY <1>13, OrderKeeps
<1>14. CASE ValidateConstraints
  BY <1>14, ConstraintsKeeps
<1>15. CASE RefuseQuery \/ Exhaust
  BY <1>15, AbandonKeeps
<1>16. CASE Finish
  BY <1>16, QuietStep DEF Finish
<1>17. CASE UNCHANGED vars
  BY <1>17, QuietStep DEF vars, Walking, Shaped
<1>18. QED
  BY <1>1, <1>2, <1>3, <1>4, <1>5, <1>6, <1>7, <1>8, <1>9, <1>10, <1>11, <1>12, <1>13, <1>14,
     <1>15, <1>16, <1>17 DEF Next

(* Whatever the document and the schema, the walk keeps the invariant.      *)
THEOREM WalkInvariant == Spec => [](Walking /\ Voicing)
<1>1. Init => Walking /\ Voicing
  BY InitWalking
<1>2. Walking /\ Voicing /\ [Next]_vars => (Walking /\ Voicing)'
  BY NextWalking
<1>3. QED
  BY <1>1, <1>2, PTL DEF Spec

(* `Walking` alone implies three of the properties.                         *)
LEMMA WalkingJudgesOnce ==
    ASSUME Walking
    PROVE  JudgedOnce
<1>1. IsSeq(agenda) /\ IsSeq(pending)
  BY DEF Walking, Shaped
<1>2. TypeOK
  <2>1. \A i \in DOMAIN pending : pending[i].hidden \in BOOLEAN
    BY DEF Walking, Shaped, Lists!ToSet, FitsRecord
  <2>2. ASSUME NEW i \in DOMAIN agenda, agenda[i].do = "scope"
        PROVE  \A h \in Lists!ToSet(agenda[i].sections) : bound[h] = None
    <3>1. \A h \in Listed(agenda[i]) : h \in Heading /\ bound[h] = None
      BY ListedIsSound DEF Walking, ListedOnce
    <3>2. QED
      BY <2>2, <3>1 DEF Listed
  <2>3. QED
    BY <2>1, <2>2 DEF TypeOK, Walking, Shaped, EvaluatedOfBound
<1>3. ASSUME NEW h \in Heading
      PROVE  /\ Cardinality(Judgements(h)) + (IF bound[h] # None THEN 1 ELSE 0) <= 1
             /\ Judgements(h) # {} \/ bound[h] # None => Reached(h)
  <2>1. /\ bound[h] # None => Judgements(h) = {}
        /\ \A i, j \in Judgements(h) : i = j
        /\ Judgements(h) # {} \/ bound[h] # None => Reached(h)
    BY DEF Walking, Apart
  <2>2. CASE Judgements(h) = {}
    BY <2>1, <2>2, FS_EmptySet
  <2>3. CASE Judgements(h) # {}
    <3>1. PICK i : Judgements(h) = {i}
      BY <2>1, <2>3
    <3>2. Cardinality(Judgements(h)) = 1 /\ bound[h] = None
      BY <2>1, <3>1, FS_Singleton
    <3>3. QED
      BY <2>1, <3>2
  <2>4. QED
    BY <2>2, <2>3
<1>4. QED
  BY <1>2, <1>3 DEF JudgedOnce, OneJudgement

(* Nothing is anchored within a subtree that skips a level,                 *)
LEMMA WalkingIsSilent ==
    ASSUME Walking
    PROVE  SkippedSubtreesSilent
<1>1. SUFFICES ASSUME NEW h \in Heading, NEW i \in DOMAIN pending, ~allowSkipped,
                      Skips(h) \/ (Parent(h) # 0 /\ Skips(Parent(h))),
                      pending[i].diagnostic.at # <<>>, Head(pending[i].diagnostic.at) = h
               PROVE  pending[i].diagnostic.id = <<"skipped-level", "section">>
  BY DEF SkippedSubtreesSilent
<1>2. Placed(pending[i].diagnostic)
  BY DEF Walking, Shaped, FitsRecord, Lists!ToSet
<1>3. h \notin Sound
  BY <1>1 DEF Sound
<1>4. h # 0
  BY ParentFacts DEF Walking
<1>5. QED
  BY <1>1, <1>2, <1>3, <1>4 DEF Placed

(* and no order violation is among headings with an unreadable value.       *)
LEMMA WalkingSuspends ==
    ASSUME Walking
    PROVE  InvalidValueSuspendsOrder
BY DEF Walking, ViolatedAlone, InvalidValueSuspendsOrder, OrderViolation

(* bind_scope, bind_child_scope and validate_sugar_root: a heading is bound *)
(* to a rule, or said once to be not allowed, misplaced or unexpected, or   *)
(* neither; never two of these, and never below a heading that the walk has *)
(* not entered.                                                             *)
THEOREM HeadingsAreJudgedOnce == Spec => []JudgedOnce
BY WalkInvariant, WalkingJudgesOnce, PTL

(* child_sections, at every scope: of a subtree that skips a level nothing  *)
(* is said except that it does, unless the schema allows it.                *)
THEOREM SkippingIsSilent == Spec => []SkippedSubtreesSilent
BY WalkInvariant, WalkingIsSilent, PTL

(* validate_value_order: an order violation is only reported for the        *)
(* headings of a rule whose values could all be read, hidden diagnostics    *)
(* included.                                                                *)
THEOREM InvalidValuesSuspend == Spec => []InvalidValueSuspendsOrder
BY WalkInvariant, WalkingSuspends, PTL

(* The whole walk: nothing is said twice, whatever scopes overlap, except   *)
(* what a query reads again.                                                *)
THEOREM WordsAreSaidOnce == Spec => []SaidOnce
<1>1. Walking /\ Voicing => SaidOnce
  BY DEF Voicing
<1>2. QED
  BY <1>1, WalkInvariant, PTL
=============================================================================
