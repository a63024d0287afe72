----------------------------- MODULE LockedText -----------------------------
(***************************************************************************)
(* The texts of one document and its locked fragments: what a new version  *)
(* must preserve (ai/validation.py, domain.py), who may create which       *)
(* fragment (router.py), and where the editor shows the fragments          *)
(* (sentences.ts).  A text is a sequence of characters; offsets count      *)
(* characters on the server and UTF-16 units in the browser.               *)
(*                                                                         *)
(* One handler or operation at a time works on a document: TaskDocument.   *)
(* Generic names start with Text: ContentProofs extends this module and    *)
(* SuggestionRounds.                                                       *)
(***************************************************************************)
EXTENDS Integers, Sequences, SequencesExt

CONSTANTS Alphabet,
          Blank,        \* the whitespace character of Alphabet
          Wide,         \* characters outside the BMP: two UTF-16 units
          MaxLength, MaxVersions, MaxOrder,   \* bounds of the instance
          NoSelection

ASSUME TextAssumption ==
    /\ Blank \in Alphabet /\ Wide \subseteq Alphabet
    /\ MaxLength \in Nat /\ MaxVersions \in Nat /\ MaxOrder \in Nat

VARIABLES versions,     \* script_versions in the order of their creation
          locks         \* locked_fragments

textVars == <<versions, locks>>

Text == SeqOf(Alphabet, MaxLength)
Selection == {x \in [start : 0..MaxLength, end : 0..MaxLength] : x.start < x.end}
\* parent_id, and the selection that provenance records.
Version == [text : Text, parent : 0..MaxVersions, selection : Selection \cup {NoSelection}]
\* since is a history: how many versions there were when the fragment was locked.
Lock == [version : 1..MaxVersions, start : 0..MaxLength, end : 0..MaxLength,
         text : Text, order : 0..MaxOrder, since : 1..MaxVersions]

\* content[start:end]
Slice(text, start, end) == SubSeq(text, start + 1, end)

\* text.strip() is not empty
NotBlank(text) == \E i \in DOMAIN text : text[i] # Blank

Strip(text) ==
    LET solid == {i \in DOMAIN text : text[i] # Blank} IN
    IF solid = {} THEN << >> ELSE SubSeq(text, Min(solid), Max(solid))

\* str.find and indexOf: every place of pattern from offset on, and the first.
Places(text, pattern, offset) ==
    {p \in offset..(Len(text) - Len(pattern)) : Slice(text, p, p + Len(pattern)) = pattern}
Find(text, pattern, offset) ==
    LET places == Places(text, pattern, offset) IN IF places = {} THEN -1 ELSE Min(places)

-----------------------------------------------------------------------------
(* Validation *)

\* Slip: a repeated fragment is looked for from the start again.
PresentFragments(candidate, fragments) ==
    SelectSeq(fragments, LAMBDA f : Find(candidate, f.text, 0) < 0)

\* Slip: one cursor for all fragments, as if they came in the order of the text.
SeekInOrder(candidate, found, f) ==
    LET p == Find(candidate, f.text, found.cursor[f.text]) IN
    IF p >= 0 THEN [found EXCEPT !.cursor = [t \in DOMAIN @ |-> p + Len(f.text)]]
              ELSE [found EXCEPT !.missing = Append(@, f)]

\* One fragment: the first place behind the last one of the same text.
Seek(candidate, found, f) ==
    LET p == Find(candidate, f.text, found.cursor[f.text]) IN
    IF p >= 0 THEN [found EXCEPT !.cursor[f.text] = p + Len(f.text)]
              ELSE [found EXCEPT !.missing = Append(@, f)]

\* validate_locked_fragments: the fragments that are not found.
MissingFragments(candidate, fragments) ==
    LET start == [cursor |-> [t \in {f.text : f \in Range(fragments)} |-> 0],
                  missing |-> << >>]
    IN FoldLeft(LAMBDA found, f : Seek(candidate, found, f), start, fragments).missing

ByOrder(set) ==
    CHOOSE s \in SetToSeqs(set) : \A i, j \in DOMAIN s : i < j => s[i].order < s[j].order

\* validate_lock_constraints sorts, _to_ai_locks sorts for the other validator.
PreservesLocks(candidate) == MissingFragments(candidate, ByOrder(locks)) = << >>

\* Slip: prefix and suffix may overlap in a shorter candidate.
PrefixAndSuffix(parent, candidate, x) ==
    LET prefix == Slice(parent, 0, x.start)  suffix == Slice(parent, x.end, Len(parent)) IN
    IsPrefix(prefix, candidate) /\ IsSuffix(suffix, candidate)

\* validate_selection_revision, the part about the text outside the selection.
OutsideUnchanged(parent, candidate, x) ==
    LET prefix == Slice(parent, 0, x.start)  suffix == Slice(parent, x.end, Len(parent)) IN
    /\ Len(candidate) >= Len(prefix) + Len(suffix)
    /\ IsPrefix(prefix, candidate) /\ IsSuffix(suffix, candidate)

-----------------------------------------------------------------------------
(* New versions; a candidate that fails a check creates none *)

TextInit == versions = << >> /\ locks = {}

AddVersion(text, parent, x) ==
    /\ Len(versions) < MaxVersions
    /\ versions' = Append(versions, [text |-> text, parent |-> parent, selection |-> x])
    /\ UNCHANGED locks

\* The answer is stored as it came; no fragment can exist yet.
CreateFirstDraft(answer) ==
    /\ versions = << >> /\ NotBlank(answer)
    /\ AddVersion(answer, 0, NoSelection)

\* revise_full and regenerate_from_suggestions
ReviseFull(parent, answer) ==
    /\ NotBlank(answer)
    /\ AddVersion(answer, parent, NoSelection) /\ PreservesLocks(answer)

ReviseSelection(parent, x, answer) ==
    /\ x.end <= Len(versions[parent].text)
    /\ NotBlank(answer)
    /\ OutsideUnchanged(versions[parent].text, answer, x)
    /\ AddVersion(answer, parent, x) /\ PreservesLocks(answer)

\* The payload's content is stripped before the handler sees it.
CreateManualEdit(parent, content) ==
    /\ NotBlank(content)
    /\ AddVersion(Strip(content), parent, NoSelection) /\ PreservesLocks(Strip(content))

-----------------------------------------------------------------------------
(* Locked fragments *)

\* assert_no_overlapping_range
Overlaps(v, x) == \E l \in locks : l.version = v /\ x.start < l.end /\ x.end > l.start

\* Slip: the largest index itself.
LastOrder == Max({l.order : l \in locks} \cup {-1})

NextOrder == Max({l.order : l \in locks} \cup {-1}) + 1

\* selected_text raises outside the version.
CreateLock(v, x) ==
    /\ NextOrder <= MaxOrder
    /\ x.end <= Len(versions[v].text)
    /\ ~Overlaps(v, x)
    /\ locks' = locks \cup
         {[version |-> v, start |-> x.start, end |-> x.end, order |-> NextOrder,
           text |-> Slice(versions[v].text, x.start, x.end), since |-> Len(versions)]}
    /\ UNCHANGED versions

DeleteLock(l) == locks' = locks \ {l} /\ UNCHANGED versions

TextNext ==
    \/ \E t \in Text : CreateFirstDraft(t)
    \/ \E p \in DOMAIN versions, t \in Text : ReviseFull(p, t) \/ CreateManualEdit(p, t)
    \/ \E p \in DOMAIN versions, t \in Text, x \in Selection : ReviseSelection(p, x, t)
    \/ \E v \in DOMAIN versions, x \in Selection : CreateLock(v, x)
    \/ \E l \in locks : DeleteLock(l)

TextSpec == TextInit /\ [][TextNext]_textVars

-----------------------------------------------------------------------------
(* The editor *)

\* The UTF-16 units of a text, and where a character starts in them.
Units(text) ==
    FlattenSeq([i \in DOMAIN text |->
                  IF text[i] \in Wide THEN << <<text[i], "high">>, <<text[i], "low">> >>
                                      ELSE << <<text[i], "unit">> >>])
Utf16Offset(text, offset) == Len(Units(Slice(text, 0, offset)))

\* Slip: fragments of other versions are placed as they come.
ShownByOrder(v) == ByOrder(locks)

\* The fragments of the shown version go first; the sort is stable.
ShownFirst(v) == ByOrder({l \in locks : l.version = v}) \o ByOrder({l \in locks : l.version # v})

\* One fragment: at its own offsets in the shown version, or else at the first place
\* that is still free, if there is one.
PlaceLock(v, ranges, l) ==
    LET text == versions[v].text
        units == Units(text)
        pattern == Units(l.text)
        Free(p) == \A r \in ranges : ~(p < r.end /\ p + Len(pattern) > r.start)
        offset == Utf16Offset(text, l.start)
        own == IF l.version = v /\ Slice(units, offset, Utf16Offset(text, l.end)) = pattern
               THEN offset ELSE -1
        free == {p \in Places(units, pattern, 0) : Free(p)}
        start == IF own >= 0 /\ Free(own) THEN own
                 ELSE IF free = {} THEN -1 ELSE Min(free)
    IN IF start < 0 THEN ranges
       ELSE ranges \cup {[lock |-> l, start |-> start, end |-> start + Len(pattern)]}

\* locateLocks
LocateLocks(v) == FoldLeft(LAMBDA ranges, l : PlaceLock(v, ranges, l), {}, ShownFirst(v))

-----------------------------------------------------------------------------
(* Properties *)

\* Every variable keeps its type.
TextTypeOK ==
    /\ versions \in Seq(Version) /\ Len(versions) <= MaxVersions
    /\ locks \subseteq Lock

\* Reference: pattern occurs n times without overlap.
Occurs(text, pattern, n) ==
    \E places \in kSubset(n, Places(text, pattern, 0)) :
      \A p, q \in places : p < q => p + Len(pattern) <= q

\* API_CONTRACT.md:133: a version made after fragments were locked has each locked
\* text at least as often as it was locked, whoever made the version, from whichever
\* parent, and in whatever order the fragments come.
LocksPreserved ==
    \A i \in DOMAIN versions : \A l \in locks : l.since < i =>
      Occurs(versions[i].text, l.text,
             Cardinality({k \in locks : k.text = l.text /\ k.since < i}))

\* Only a changed fragment refuses a text: whatever text is sent, if it has each
\* locked text as often as the document has locked it, without overlap, the validators
\* find them all, in whatever order the fragments come and although each search takes
\* the first place it meets.  A fragment counts whichever version it was locked in.
NoFalseRefusal ==
    \A t \in Text :
      (\A l \in locks : Occurs(t, l.text, Cardinality({k \in locks : k.text = l.text})))
        => PreservesLocks(t)

\* A selection revision is its parent with the selection replaced, nothing else.
SelectionOnly ==
    \A i \in DOMAIN versions : versions[i].selection # NoSelection =>
      LET x == versions[i].selection
          parent == versions[versions[i].parent].text IN
      \E middle \in Text :
        versions[i].text = Slice(parent, 0, x.start) \o middle \o Slice(parent, x.end, Len(parent))

\* The editor shows each fragment of a version where it was locked, and no two
\* fragments over each other, also when fragments of other versions share text.
ShownInPlace ==
    \A i \in DOMAIN versions :
      LET ranges == LocateLocks(i)  text == versions[i].text IN
      /\ \A r, s \in ranges : r # s => r.end <= s.start \/ s.end <= r.start
      /\ \A l \in locks : l.version = i =>
           [lock |-> l, start |-> Utf16Offset(text, l.start), end |-> Utf16Offset(text, l.end)]
             \in ranges

-----------------------------------------------------------------------------
(* The inductive invariants of the proofs *)

\* A version was made from an earlier one, and only a revision has a selection: the
\* parent that SelectionOnly compares with exists and never changes.
ParentsEarlier ==
    \A i \in DOMAIN versions :
      versions[i].parent < i /\ (versions[i].parent = 0 => versions[i].selection = NoSelection)

TextInv == TextTypeOK /\ SelectionOnly /\ ParentsEarlier

\* A fragment is what its version has between its offsets, and is not empty.
Cut(l) ==
    /\ l.version \in DOMAIN versions /\ l.since <= Len(versions)
    /\ l.start < l.end /\ l.end <= Len(versions[l.version].text)
    /\ l.text = Slice(versions[l.version].text, l.start, l.end)

\* Two fragments have different order indexes and, in one version, no character in
\* common.
Apart(k, l) ==
    k # l => /\ k.order # l.order
             /\ k.version = l.version => k.end <= l.start \/ l.end <= k.start

FragmentInv ==
    /\ IsFiniteSet(locks)
    /\ \A l \in locks : Cut(l)
    /\ \A k, l \in locks : Apart(k, l)
    /\ LocksPreserved
=============================================================================
