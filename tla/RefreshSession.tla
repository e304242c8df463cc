--------------------------- MODULE RefreshSession ---------------------------
(***************************************************************************)
(* The refresh session: class IndicatorRefreshSession in                   *)
(* src/include/ioc/ioc.hpp and src/src/ioc/ioc.cpp.  Each text that it     *)
(* ingests replaces the set of indicators and the index over it; nothing   *)
(* else touches the index, so that of IndicatorIndex only the variables,   *)
(* the tables and the queries are used here.  "text" remembers the lines   *)
(* that were ingested last.                                                *)
(***************************************************************************)
EXTENDS IndicatorIndex, IndicatorText

CONSTANTS Lines,           \* the lines that a text may have
          MaxLines         \* bound on their number

ASSUME MaxLinesAssumption == MaxLines \in Nat /\ MaxLines <= MaxId
ASSUME LinesAssumption ==
    /\ Lines \subseteq {BlankLine} \cup WrittenLines
    /\ \A line \in Lines : ~line.blank => ParseIndicatorLine(line) \subseteq Inputs

VARIABLES text, currentSet, refreshGeneration

sessionVars == <<vars, text, currentSet, refreshGeneration>>

(* Fault: the index is not made anew.                                      *)
FreshIndexKeeping(inds) ==
    LET new == records \o [k \in DOMAIN inds |-> NewRecord(inds[k], k - 1)]
    IN  /\ records' = new
        /\ IndexRecords(new, Len(records) + 1 .. Len(new))
        /\ nextId' = nextId + Len(inds)
        /\ generation' = After(generation, Len(inds))

(* A new index to which add_set has added these indicators.                *)
FreshIndex(inds) ==
    LET recs == [k \in DOMAIN inds |->
                    [id |-> k, generation |-> After(1, k - 1), active |-> TRUE,
                     value |-> Completed(inds[k]), role |-> inds[k].role,
                     blank |-> inds[k].blank]]
    IN  /\ records' = recs
        /\ idToSlot' = IdMap(recs, DOMAIN recs)
        /\ keyToSlot' = KeyMap(recs, DOMAIN recs)
        /\ domains' = DomainPostings(recs, DOMAIN recs)
        /\ hashes' = HashPostings(recs, DOMAIN recs)
        /\ trie' = TriePostings(recs, DOMAIN recs)
        /\ nodes' = TrieNodes(recs, DOMAIN recs)
        /\ nextId' = Len(inds) + 1
        /\ generation' = After(1, Len(inds))

InitSession ==
    /\ Init
    /\ text = << >>
    /\ currentSet = EmptySet
    /\ refreshGeneration = 0

(* ingest_snapshot, and replace_snapshot, which calls it.                  *)
Ingest(lines) ==
    /\ text' = lines
    /\ currentSet' = ParseIndicatorText(lines)
    /\ FreshIndex(currentSet'.indicators)
    /\ refreshGeneration' = (refreshGeneration + 1) % GenerationMod

NextSession == \E n \in 0 .. MaxLines : \E lines \in [1 .. n -> Lines] : Ingest(lines)

SpecSession == InitSession /\ [][NextSession]_sessionVars

-----------------------------------------------------------------------------
(* Properties.                                                             *)

(* The session answers from its index what the set of the text ingested    *)
(* last would answer, and nothing of any text before it.                   *)
AnswersLastText ==
    LET inds == {[value |-> i.value, role |-> i.role] :
                    i \in Range(ParseIndicatorText(text).indicators)}
    IN  \A pkt \in Packets : MatchIndexed(pkt) = MatchPacket(inds, pkt)

(* The parser's idea of a duplicate and the index's idea of a key are the  *)
(* same: no two records of a session share a key, none is left out, and no *)
(* line is lost between the indicators, the duplicates and the refusals.   *)
KeysUnique ==
    /\ \A s \in DOMAIN records : keyToSlot[KeyOf(records[s])] = s
    /\ \A d \in Range(currentSet.duplicates) : ContainsKey(IndicatorKey(d))
    /\ Len(records) + Len(currentSet.duplicates) + currentSet.refused
         = Cardinality({k \in DOMAIN text : ~text[k].blank})

(* A list that is read in two parts and merged has the indicators of the   *)
(* whole list, in the same order, and as many refusals.                    *)
MergeIsConcatenation ==
    \A k \in 0 .. Len(text) :
        LET merged == MergeIndicatorSets(<<ParseIndicatorText(SubSeq(text, 1, k)),
                                           ParseIndicatorText(SubSeq(text, k + 1, Len(text)))>>)
        IN  /\ merged.indicators = currentSet.indicators
            /\ merged.refused = currentSet.refused

(* What a line says: the value in normal form and the role, if it names    *)
(* one.                                                                    *)
Says(line, ind) ==
    /\ ind.value = Completed([value |-> line.value, blank |-> TRUE])
    /\ line.role \in Roles => ind.role = line.role

(* The token of the value's type leads, or none where none is needed.      *)
Typed(line) == line.token = line.value.type \/ (line.token = "" /\ NeedsNoToken(line))

(* A line that needs no type token, or has that of its value, is an        *)
(* indicator of the session as what the line says, unless a "//" outside   *)
(* quotes cuts it short.                                                   *)
WholeLinesUnderstood ==
    \A line \in {l \in Range(text) : ~l.blank /\ IsKnown(l.value) /\ ~CutShort(l)} :
        Typed(line) => \E r \in Range(records) : Says(line, r)

(* The same for all lines, those with a URL outside quotes included.       *)
LinesUnderstood ==
    \A line \in {l \in Range(text) : ~l.blank /\ IsKnown(l.value)} :
        Typed(line) => \E r \in Range(records) : Says(line, r)
=============================================================================
