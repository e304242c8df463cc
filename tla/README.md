# A TLA+ verification of PacketGuard

PacketGuard is an offline C++17 library that inspects packet captures,
indicator lists, IDS signatures and firewall exports. This directory holds a
model of its stateful and algorithmic parts in TLA+, runs of TLC that check the
model on small instances, and proofs of its main invariants that TLAPS checks
for every value of the constants. Paths in this text and in the modules are
paths of the repository.

    tlc -config MCIndicatorIndex_all.cfg MCIndicatorIndex.tla
    tlapm IndicatorIndexProofs.tla

`PROJECT.json` lists the components, the runs, the lines of code behind each
definition, the hazards with the properties that cover them, a mutant or more for
every property of a run, and the theorems.


## 1. The system

The library is sequential: no threads, no timers, no network, nothing kept on
disk between runs. What is hard about it is state that is derived from other
state (tables, indexes, snapshots, reports) and must follow it through every
order of calls, and loops driven by bytes that nobody controls. So there is no
crash recovery and no message loss to model; the interleavings that matter are
the orders in which a caller may make its calls.

| component | state | operations | used by |
|---|---|---|---|
| **IndicatorIndex** (`src/src/ioc/ioc.cpp`) | records in slots; id map, key map, domain and hash postings, a trie of address bits; next id, generation | add, add_set, remove_id, remove_key, reactivate_id, update_role, rebuild, compact; lookups, match_packet, contains_key, validate_integrity | IndicatorRefreshSession, callers that keep ids |
| **IndicatorRefreshSession** (same file) | the set of the last text, an index over it, refresh generation | ingest_snapshot, replace_snapshot; match_packet, match_cached_cidr | iocmatch-like callers |
| **indicator lists** (same file) | none | parse_indicator_line, parse_indicator_text, merge_indicator_sets, match_packet of a set | the session, the tools |
| **rules** (`src/src/rules/rules.cpp`) | none | parse_rule_line, parse_rule_text, validate_rule, rule_key, file conflicts, rule_matches_packet | RuleSetManager, the tools; the expressions also by policy |
| **RuleSetManager** (`src/src/rules/rule_set_manager.cpp`) | rules, sid and classtype index, diagnostics, generation | add_rule, add_rule_text, add_rule_file_text, replace_rule, replace_rule_text, erase_index, erase_sid, clear, rebuild_indexes; find_latest_sid, find_by_classtype, match_packet, snapshot | callers that hold snapshots |
| **policy** (`src/src/policy/policy.cpp`) | the file being read: rules, counts of lines per dialect, diagnostics | parse_policy_text with the parsers of both dialects, validation, duplicate_rules, shadowed_rules, ordering_warnings | policyaudit |
| **packet** (`src/src/packet/packet.cpp`) | cursors into the bytes; frames of a recursive call | parse_pcap, decode_packet_payload, parse_dns_message, read_dns_name | ioc and rules, which match the metadata |
| **byte readers** (`src/src/core/byte_view.cpp`) | a view and the offset of a reader in it | read_u8 to read_le32, read_bytes, peek_bytes, advance; at, slice | packet, which uses views only |
| **core functions** (`src/src/core/`) | none; lists of diagnostics | masks and ranges, numbers, timestamps, checksums, comments and quotes | everything |
| **security catalog** (`src/src/core/security_catalog.cpp`) | 1 530 constant entries in four tables | linear searches by key, risk or category | nothing |
| **tools, fuzz harnesses, tests** | none | read files, call the library, print | |

Calls go down this table's arrows only: `policy -> rules -> packet -> core` and
`ioc -> packet -> core`; there are no callbacks. State is shared in three ways:
an index shares its records with its tables, a session shares a set with an
index, and a snapshot or an id that a caller keeps refers to an object that goes
on changing.

What makes each component correct:

* **IndicatorIndex.** Tables patched in place by `add` are what a rebuild would
  make; lookups answer what a scan of the active records answers; ids are never
  issued twice and never change hands when `compact` moves records;
  `remove_key` takes the right one of several records with a key; the array of
  the trie's nodes stays a tree of the active ranges.
* **Session.** It answers for the last text and for nothing before it; the
  parser and the index agree on what a duplicate is.
* **Rules and rule set.** Indexes follow the renumbering of erasures; the latest
  revision wins; every way in validates; a snapshot's generation is to be
  trusted; rules called duplicates match alike.
* **Policy.** What the audit says of a rule (shadowed, too late, duplicate) is
  true of what the rules do.
* **DNS names.** Reading ends for all bytes, stays within them, refuses circles,
  bounds its work, and leaves the caller further on.
* **DNS messages.** What was written, with whatever compression, is read as it
  was meant; questions and records lie side by side although names point
  anywhere; one failure leaves nothing of the message.
* **Captures.** Every header lies inside the one around it, whatever lengths
  they claim; packets lie side by side; a cut costs no packet before it and is
  reported (but costs the packet it goes through, see section 5), and a header
  that is dropped leaves a note.
* **Byte readers and core functions.** No byte outside the view is touched and
  none is read twice; numbers never wrap; a mask is a prefix; merging ranges
  neither loses nor adds addresses; what is written in quotes is read again.
* **Catalog.** An entry that is listed is the one that its key finds, and the
  names are those of the decoder.

The section `hazards` of `PROJECT.json` names the lines where each of these
could go wrong.


## 2. The modules

    Ipv4 --- Indicators --- IndicatorIndex --- IndicatorIndexProofs
      |          |   \            |
      |          |    \           \--- CidrTrie --- MCIndicatorIndex
      |          |    IndicatorStore (abstract; IndicatorIndex implements it)
      |          \--- IndicatorText --- RefreshSession (also extends IndicatorIndex)
      |                                      \--- MCRefreshSession, RefreshSessionProofs
      \-- Expressions --- Rules --- RuleSet --- RuleSetSnapshots --- RuleSetProofs
                |                      \--- MCRuleSet      \--- MCRuleSetSnapshots
                \------ Policy --- PolicyProofs, MCPolicy
    DnsName --- DnsNameProofs (with DnsSpelling), MCDnsName
       \-- DnsMessage --- DnsWriting (with DnsSpelling) --- DnsMessageProofs, MCDnsMessage
    Capture --- CaptureProofs, MCCapture
    Ipv4 --- Ranges
                \-- CoreLibrary (with ByteReader, Texts, Catalog) --- CoreLibraryProofs, MCCoreLibrary

**Ipv4** — addresses as sequences of `AddrBits` bits, a range as the bits that
its prefix fixes; `contains` is being a prefix.

**Indicators** — values of each type, their normal forms (`NormalizeDomain`,
`NormalizeUrl`, `NormalizeHash`), the host a URL stands for, and the scan:
`MatchPacket` is `match_packet` of an `IndicatorSet`, allow list included. Names
are sequences of labels. Normalization is what the code does and not the
identity: one wildcard and one dot are stripped, once each.

**IndicatorIndex** — the class. Its variables are the members: `records` (slot
to record), `idToSlot`, `keyToSlot`, `domains`, `hashes`, `trie`/`nodes`,
`nextId`, `generation`. One action per mutator: `AddSet` (`add` is a set of
one), `RemoveId`, `RemoveKey`, `ReactivateId`, `UpdateRole`, `Rebuild`,
`Compact`. `AddSet` patches the tables through `IndexRecords`, as `index_record`
does; the others go through `RebuildIndexes` or `RebuildFrom`, in the code's
distinction of whether the id map is rebuilt too. Posting vectors are sets of
pairs and the trie is the set of the paths to its nodes, so the order of matches
is left out. A call that returns false changes nothing and is no step. An
indicator comes with its normalized text or, through `add`, without (`blank`):
`add` makes one from what the indicator was read from, except for addresses,
whose keys then have nothing but type and role (`Unnamed`), so that all such
ranges share one.

**CidrTrie** — the array in which the index keeps that trie, `cidr_trie_`:
nodes with the numbers of their two children and the slots filed at them.
`FileRange` is the loop of `index_record`, node by node, `Walk` that of
`lookup_ip`; each step of the index comes with what it does to the array, so that
a behaviour of `SpecTrie` is one of `Spec` with the array beside it.
`ValidateIntegrity` of the index is the part of `validate_integrity` about maps
and records, `ValidateTrie` the part about the array.

**IndicatorStore** — what the index promises: a map from ids to indicators that
are active or not, with insert, relabel, (de)activate, remove the youngest of a
key, purge. It has no slots and no tables and stands for no line of the code.

**IndicatorText** — lines of a list, from their fields on: the type token or the
inferred type, the value read as that type, the role, and `remove_comment`,
as far as it cuts off a URL. A value has one type, but `ReadAs` reads it as the
token in front of it asks: an address is a domain name too, and behind `url`
everything is taken apart as a URL (`UrlIn`), so that `url 10.0.0.0/8` has the
path `/8`. `infer_ioc_type` sees the quotes of a value, except those of a hash
(`NeedsNoToken`). `ParseIndicatorText` keeps first occurrences,
duplicates and the number of refused lines; `MergeIndicatorSets` merges.

**RefreshSession** — the session on top of both: `Ingest(lines)` is
`ingest_snapshot`, which replaces set and index; `text` remembers what was
ingested, for the properties to speak of.

**Expressions** — `AddressExpr` and `PortExpr`: what they match and how they
render.

**Rules** — from a well-formed line to a rule (`ParsedRule`: first option of a
key wins, numbers beyond `MaxU32` count as none), `ValidateRule`, `RuleKey`,
conflicts within a file, matching.

**RuleSet** — the manager: `rules`, `sidIndex`, `classtypeIndex`, `diagnostics`,
`generation`, an action per mutator with its refusals, which leave a warning.
**RuleSetSnapshots** adds a caller that holds a snapshot of any age.

**Policy** — `parse_policy_text` as a loop: `ReadLine` reads any line, `Finish`
runs the three searches and settles the dialect. A line is given by what its
words assign, in order; a value that cannot be read refuses the line or is
passed over, as in the parser of that dialect. The verdicts are compared with
`Deciding`, the first matching rule with a final action.

**DnsName** — `read_dns_name` with its recursion made explicit: a frame per call
under way, a step per pass of the innermost loop. When that returns, all
callers return, so the last step ends the read.

**DnsMessage** — `parse_dns_message`. It instantiates `DnsName` (`N`), whose
variables are part of its own: `ReadName` is a step of the name that is read at
the moment. The four loops over the sections are one loop over items, since an
item's place tells its section. `ReadHeader` counts; `OwnerFails` ends with the
error of a name; `FinishQuestion` and `FinishRecord` take the numbers behind a
name, check that the data lie in the message and, for a record whose data are a
name, start a second name inside them; `ShowData` goes on behind the data,
wherever that name ended and whether or not it could be read.

**DnsSpelling**, **DnsWriting** — the other side of a message, after RFC 1035 and
not after the code: how labels and pointers spell a name (`Spells`, where a
pointer may lead backward or forward as long as the spelling ends), and what it
means that bytes are a writing of certain questions and records (`IsWriting`).
`DnsWriting` states what the decoder owes to the writer
(`DecodesWhatWasWritten`). `MCDnsMessage` has a writer, free in its use of
compression, and TLC evaluates that what it makes are writings.

**Capture** — `parse_pcap` and the parsers of Ethernet, IPv4, TCP and UDP, as a
machine whose `stage` says which header is next. The loop is `EndOfFile`,
`TrailingBytes`, `PacketTooLong` and `BeginPacket`; the descent into a packet is
one action per header, with all its refusals, each of which leaves the note or
the warning that the code leaves. A file is given by its size and the numbers in
its headers. A DNS message is the number of bytes that it needs, which is all
that the decoder sees of it.

**ByteReader** — `ByteView` and `ByteReader`: which bytes a call touches, with
sizes that wrap around at `SizeMod`. A view may be of a null pointer (`data`): `at`
and `slice` refuse it unless it is empty (`ViewValid`,
`src/src/core/byte_view.cpp:9`, `:14`), which is the one way in which
`read_bytes` fails after its test of the size. The readers of integers do not
look, and follow the pointer (`followed`); the model ends there. Nothing in the
repository makes such a view.

**Ranges** — masks and ranges as words of bits, as the code computes them (`&`,
shifts, `<` and all), where the other components take a range as its prefix;
reading of numbers,
`parse_cidr`, `merge_ranges`, the kinds of addresses, `internet_checksum`,
timestamps. **Texts** — `remove_comment`, options and ports of rules, INI and
CSV settings of a policy, as sequences of characters. **Catalog** — all entries
of the four tables in their order, with runs of generated entries as stretches
and of each entry what a lookup compares or a label shows; the lookups, and the
names and options that `packet.cpp` and `rules.cpp` keep on their own. **CoreLibrary**
puts them together: a caller walks over bytes, or asks a function a question and
gets an answer, one action per function.

In `DnsMessage` and `Capture` the action `Returned` stands for the call having
returned. With deadlock checked, a read that stops anywhere else is an error.

Definitions whose comment begins with "Fault" are slips that a plausible change
of the code would make: no action uses them, and each property is known to
notice at least one of them when it takes the place of the definition after it.


## 3. The runs

All bounds are constants of the configurations. States are distinct states.

| run | what it asks | bounds and why they are enough |
|---|---|---|
| `index` | `TablesCurrent`, `LookupsExact`, `IndexAgreesWithScan`, `ArrayExact`, `IdsStable`, `ImplementsStore`, `OperationsImplement` | The index with the array of its trie (`SpecTrie`). 3 ids, sets of up to 2, both roles: three records are needed for one key in two slots and one record behind a removed one. 3-bit addresses: a range of everything and one of two addresses, both without a normalized text, so that their keys differ by the role only, a range inside the second and an address that leaves its path halfway, so that nodes are made from the root, from the middle of a path and not at all; a wildcard and a hash that `add` completes, a URL with a port whose host the wildcard covers. No property looks at the generation of a record, so generations are counted modulo 1. 25 300 states. |
| `session_texts` | `AnswersLastText`, `KeysUnique`, `MergeIsConcatenation`, `WholeLinesUnderstood` | All texts of up to 3 of 11 lines, each after any other: a name with two stars and a dot, a URL in quotes, an address alone, as a range and as a name, a range, a hash and a word behind `url`, a hash behind its token and in quotes without, in another role, a blank line. Two lines make a duplicate, a third stands before or behind it in the other part. 1 464 states, 2.1 million steps. |
| `rules_manage` | `WarningsReported`, `LookupsAgree`, `ErasureIsLocal` | 3 rules, 3 changes, two revisions of a sid, another sid whose revision does not fit, a default-constructed rule, a malformed and a blank line: every erasure moves a rule that is indexed. 100 000 states. |
| `rules_match` | `DuplicatesMatchAlike`, `FileConflictsWarned`, `SnapshotHonest` | All TCP packets over 4 addresses and 3 ports and some DNS messages, against rules that differ in one field each; 2 rules, 2 changes, a snapshot from any moment. 6 100 states. |
| `policy_audit` | `ShadowedRemovable`, `LateNeverDecides`, `DuplicatesMatchAlike` | All exports of up to 4 lines of both dialects, with refused and foreign ones; chains of rules in which one that shadows is shadowed itself need three, and a refused line before them a fourth. 83 000 states. |
| `dns_read` | `CursorAdvances`, `LabelsReal`, `LoopsRefused`, `Terminates` | All messages of up to 4 bytes over 6 values and of 5 and 6 over 4, from every offset; 2 pointers and 3 characters instead of 12 and 255, which circles and long names of that size exceed. 114 000 states. |
| `dns_message` | `ItemsTile`, `AllOrNothing`, `DecodesWhatWasWritten` | Originals of up to 5 items in all four sections with names that are suffixes of each other, in every writing that compression allows; two of them cut at every length, continued, and with each byte exchanged for counts, lengths and pointers; headers that count 65535 of everything. The limits are those of the code, 12 and 255. 20 800 states. |
| `capture` | `HeadersInside`, `PacketsTile`, `EndExplained`, `WholePacketsRead`, `GapsNoted` | One packet of each of some 200 frames, captured up to the middle and the end of each header, with every length too small, right, one too large and largest; two packets in a file that is cut at every length or goes on with zeros; the capture of the packet test. All lengths are those of the code. 42 800 states. |
| `core` | `SpansInside`, `NothingTwice`, `ValuesExact`, `RangesExact`, `MergeIsMaximal`, `ChecksumVerifies`, `TextsSurvive`, `CatalogConsistent` | Views of up to 9 bytes with sizes modulo 10, under all sequences of calls; numbers of up to 4 digits where unsigned integers end at 999 (ten times the largest number allowed and a digit still fit, as in the code); all lists of 3 of some 20 ranges of 4-bit addresses; words of up to 8 bytes with two bits each, which reach a second carry; lines of up to 5 characters, and all values of up to 2 in quotes. Times are all texts of up to 5 characters, with a point, without, and with blanks. The catalog is complete. 128 000 states. |
| `session_urls`, `dns_long`, `policy_interfaces` | one property each, violated | see section 5 |

Deadlock is checked in the runs of the index, the rules and the session, which
stop adding at their bounds while other operations go on, and in `dns_message`
and `capture`, whose reads end in `Returned`. A name that has been read, an
audit and a question that was answered come to their end, so `dns_read`,
`dns_long`, `policy_*` and `core` switch it off.

What the properties mean, where the name does not say it:

* `IndexAgreesWithScan` compares the two implementations of matching. It is
  limited to hosts that are in normal form (`HasNormalHost`): the index
  normalizes a host once more than the scan (`src/src/ioc/ioc.cpp:343`), and they
  differ on a normalized text that still has two stars in front. The line
  `*.*.x.com` is no such case: it is accepted, and its normalized text `*.x.com`
  means the same to both. But the line of a URL with three stars,
  `http://*.*.*.x.com/`, is, and so is any text of two that a caller gives `add`.
* `ArrayExact` has three parts. `ArrayHoldsTrie` compares the array of nodes with the set of paths, which is what
  the other properties of the index are about, and `WalksExact` the walk with a
  scan of the records. `ArrayIsTree` is why the walk may look up a node before it
  tests its number (`src/src/ioc/ioc.cpp:403`).
* `IdsStable` is an action property: across any step an id keeps its value, and
  one that is gone does not come back.
* `MergeIsConcatenation` cuts the text at every place.
* `ErasureIsLocal` compares the answers before and after `erase_sid`, not the
  rule numbers, which change.
* `ShadowedRemovable` takes out all reported rules *together*. Pair by pair it
  would be easy; together it needs that one which shadows is never removed
  without another that shadows both.
* `WholeLinesUnderstood` and `LinesUnderstood` are the same question, without
  and with URLs outside quotes, about lines whose value looks like an indicator.
* `DecodesWhatWasWritten` compares labels, numbers and data of every item with
  the original, also when other bytes follow, and has every proper part of a
  message refused.
* `WholePacketsRead`: a file that is cut in a record has all the records before
  it. It says nothing of the record that is cut: that one is dropped, also if its
  headers and payload are there. A test wants it decoded, see section 5.
* `GapsNoted`: a packet counts in `protocol_histogram` as less than its headers
  promise exactly if it has a note.
* `ValuesExact` has three parts: `DigitsExact`, `TimesNormal` and
  `UnixTimesExact`, which is about texts with a point and without, digits, blanks
  and anything else: which of them are times, of what value, and which are thrown
  out of `parse_unix_timestamp` by `stoll` for their many digits and not answered
  as no time.
* `RangesExact`: `contains` is having the prefix (`ContainsIsPrefix`), which
  justifies the addresses of `Ipv4`; the kinds of addresses are disjoint.
* `TextsSurvive` has five parts. Two readers of quotes agree (`QuotesAgree`);
  options, ports, INI values and CSV fields that are written and read are as
  before. Each names what it leaves out: values with quotes of their own.
* `CatalogConsistent`: `ListedIsFound`, what any list has is what its key finds,
  and `NamesAgree`, services, types and identifying options are those of the
  decoder and of the rules, in the tables and in the labels.

No run checks the types: `TypeOK` is proved for five of the machines, see the
next section, as are `IdsResolve`, `IntegrityHolds`, `IndexesCurrent` (of which the
rules' lookups are what a caller sees), `BothDirectionsAlike`,
`WorkBounded` and the invariant of the session, which follow from invariants that
are checked or from the shape of a definition.

**Fairness.** Only `DnsName` states any: weak fairness of `Next`, since the loop
of a C++ function goes on by itself until it returns. `Terminates` needs nothing
else. In `DnsMessage` and `Capture` that reads end follows from less: no state
but the answers is without a step (deadlock is checked), every item takes bytes
of its own (`ItemsTile`, `PacketsTile`), and names end. No other part of the
library has anything that must eventually happen: its operations are calls that
return.


## 4. What is proved

All proofs are checked by `tlapm` to their leaves. They hold for every value of
the constants under the named assumptions of the modules: `AddrBits`, the bounds
and the limits are naturals, `GenerationMod` is positive, roles are those of
`ListRole`, inputs have payloads of their types, packets have addresses and
names for endpoints and queries, lines of a list have the fields of a line and
are no more than there are ids, lines of a firewall assign only names of chains
to a chain, written messages are writings, questions are of their function's
kind. TLC evaluates all of them in the runs. Two hypotheses beyond that stand in
the theorems that need them, because the code lets other values through:

* `NoVoids`: no expression is a negated "any" (section 5). With `!any` the
  theorems about duplicates and about the audit are false.
* `HostsNormal`: the hosts in a list are in normal form. `http://*.*.*.x.com/` is
  accepted, matched as `x.com` by the index and as `*.x.com` by the scan.

**IndicatorIndexProofs** — `TypeOK`, `IdsResolve`, `TablesCurrent`,
`IntegrityHolds`, `LookupsExact`, `IndexAgreesWithScan`, `IdsStable`,
`ImplementsStore`, `OperationsImplement`. The inductive invariant is the
conjunction of the first three. Neither of the next two is inductive: that a
lookup is exact after `add` needs that the tables were complete before, and that
needs ids and slots in the same order, because an assignment to a map keeps the
last slot of a key (`SlotMapExtend`: the map of the longer sequence is the map of
the shorter one overridden by that of the new slots). `Stamp` and `RebuildFrom`
make the tables anew, so for them there is little to show; `AddSet` is where the
work is. `LookupsExact` then follows from the invariant alone; the walk down the
trie is exact because all prefixes of a filed range are nodes.

`IndexAgreesWithScan` is about names: the index matches a host that was
normalized twice against a name that was, the scan one that was normalized once.
What a normalization strips from a name is never part of a suffix that matches
(`NormalProperties`, `NormalSuffix`), so the name may be normalized twice; the
host may not, which is what `HasNormalHost` is for.

`ImplementsStore` maps the records by id to the entries of `IndicatorStore`. The
id map is exact under the invariant (`IdMapExact`: the only record with an id is
the one it leads to), and that turns an assignment to a slot into one to an id.
A compaction is a purge because the ascending row of the live slots is onto
(`CompactionOnto`). `remove_key` removes the youngest because the key map has
the latest slot and ids ascend with slots. `IdsStable` follows in the store, where
it is one line per operation (`StoreKeepsValues`), and is carried back.

**RefreshSessionProofs** — `SessionInv`, `KeysUnique`, `MergeIsConcatenation`,
`WholeLinesUnderstood` and, under `HostsNormal`, `AnswersLastText`. The
invariant: the set is that of the text, the records are those of the set in its
order, and the invariant of the index holds (`FreshIndexInv`; it is the same one,
so the theorems of the index apply). The rest is about folds. A fold is the last
element of a *run*, a function that takes one element at a time (`ParseIsRun`,
`IncludeAllIsRun`, `MergeIsRun`), and over a run one can go by induction. `Kept`
says of the first k lines that the keys of the indicators are those of the
readable lines, each once, that duplicates have keys of indicators, and that
lines, indicators, duplicates and refusals add up. For the merge, `Along` relates
two runs, one over the whole text and one over its tail: the set of the tail,
included in the set of the lines before it, has the indicators of the whole, line
by line; it needs that an inclusion adds exactly the keys of what is included
(`IncludesAll`).

**RuleSetProofs** — `TypeOK`, `IndexesCurrent`, `WarningsReported`,
`LookupsAgree`, `BothDirectionsAlike`, `FileConflictsWarned`, `ErasureIsLocal`,
under `NoVoids` `DuplicatesMatchAlike` and, for `SpecHeld`, `SnapshotHonest`. The
invariant is types, indexes and warnings. `LookupsAgree` follows, given that a
non-empty finite set of rules has one with the highest revision and the last
place. `ErasureIsLocal` uses it before and after: the places that are left, in
ascending order, are a row onto all rules but those erased, so the latest of any
other sid is still the latest, wherever it has moved, and there is only one.
`DuplicatesMatchAlike` says that expressions which are rendered alike match alike
(`RenderedAlike`). `SnapshotHonest` needs one fact more: every step either counts
up the generation or leaves rules and indexes alone (`NextCountsOrKeeps`).

**DnsNameProofs** — `TypeOK`, `LabelsReal`, `CursorAdvances`, `LoopsRefused`. The
invariant adds to them that each frame's offset is inside the message and not
before the place where the call began, and that the outermost call began at
`start`. `LoopsRefused` has an invariant of its own, `Traced`: labels lead from
the beginning of each call to the place where it goes on, to a pointer if it made
a call, and that pointer leads to the beginning of the next one. "Labels lead to"
is a closure (every set of places that labels neither enter nor leave has both or
none), so no recursion is needed, and a place where labels end is the only one
that they lead to (`OneEnd`'s argument: the places that lead to it, without those
that lead past it, are all). If two calls began at the same place, take the
latest such pair: they end at the same pointer or zero, so either they make calls
that begin at the same place again, or the inner one ends with a zero where the
outer one has a pointer.

**PolicyProofs** — `TypeOK` and, under `NoVoids`, `ShadowedRemovable`,
`LateNeverDecides` and `DuplicatesMatchAlike`. Without `NoVoids` they are false:
a deny from `!any` matches nothing, yet `ordering_warnings` takes it for a broad
one, since it looks at the `any` flags and not at `negated`
(`src/src/policy/policy.cpp:244`). The invariant adds to the types that
expressions are sound, and that once the file is finished the reported lines are
exactly those of the three searches. The argument for `ShadowedRemovable`: the
first rule that decides on a tuple is never reported, since one that shadows it
would match the same tuple earlier; and the first among the rest is then the
first of all.

**DnsMessageProofs** — `ItemsTile`, `WorkBounded`, `AllOrNothing`,
`DecodesWhatWasWritten`. The invariant puts that of `DnsName`, taken over by an
instance of its proofs, under the items: a name that was read leaves the cursor
further on and inside the message (`CursorAdvances` is what the proof needs of
it), so an item that ends there has at least five bytes of its own. `WorkBounded`
is a consequence: a message of n bytes costs at most n / 5 items, whatever its
header counts.

`DecodesWhatWasWritten` rests on `SpelledAlwaysRead` of **DnsNameProofs**: a name
that is spelled at `start`, within the limits, is read as it was spelled, and the
cursor ends behind its first pointer or its zero; only a message that was cut may
be refused. Its invariant, `Told`, says
that the calls under way have gone along the spelling: the labels so far are
those told before the innermost place, there is one call for each pointer passed,
and only the first call may end elsewhere than at the last zero. On top of it,
`AllHeard` says for every writing that agrees with the message so far (the
message may be a part of the writing, or go on behind it) that the items read are
its first things, each conveyed in full, and that the name in progress is spelled
where the next thing has it. The one assumption is `WrittenAssumption`: the
messages in `Written` are writings. TLC evaluates it for those of the run, so it
is no empty one.

**CaptureProofs** — `HeadersInside`, `PacketsTile`, `EndExplained`,
`WholePacketsRead`, `GapsNoted`, `TypeOK`, for files and headers of any lengths.
The invariant adds to them what `stage` says of the packet in progress: which
headers it has, and that each next one starts inside what the last one passed on.
`GapsNoted` adds what `stage` says of the frame (`Described`): that it promises
the header which is read next, so that a packet in progress always counts as less
than its frame promises. `WholePacketsRead` adds that each packet so far is the
record that the file has there, in full (`AsGiven`), so that the cursor is where the
recursive `ends` of `Whole` has it.

**CoreLibraryProofs** — `SpansInside`, `NothingTwice`, `RangesExact`,
`MergeIsMaximal`, `ValuesExact`, `ChecksumVerifies`. The invariant of the machine
is short: an answer is the function of the question, the question is of the
function's kind (`QuestionsAssumption`), and the reader is inside its view;
`slice` compares without adding, so that only `advance` depends on the width of
sizes. The work is in the functions, for arguments of every length:

* a number (`ReadNumberExact`): as long as the value is allowed, ten times it and
  a digit fit the accumulator, so that the test after each digit comes in time.
  That is what `QuestionsAssumption` asks of the largest value: prefixes up to 32
  and ports up to 65535 in 32 bits, sids in 64;
* a unix time (`SpelledRead`, `OnlySpelledRead`): a text is read with a point
  (`ReadPointed`) or without (`ReadWhole`), and either way it throws exactly when
  the seconds exceed their type;
* a decimal (`UnixExact`): what follows the first digits of a number changes its
  value by less than one in their last place (`LeadingDigits`), which covers both
  cutting and padding;
* a timestamp (`NormalizeExact`): the loops as a function on all moments, which
  exists (`NormalizingExists`) and leaves the moment where it is;
* masks (`ContainsBits`, `CidrReadable`): bit by bit, a mask has ones exactly at
  the first `prefix` places, so that `contains` is `IsPrefix`;
* the kinds of addresses (`OneKind`): by the four bytes;
* a merge (`MergeMaximal`): a list of ranges has an order that `std::sort` may
  put it in (`SortingExists`, by insertion), and in it a range that covers another
  never stands behind it, unless they are equal (`CoveringComesFirst`). So when a
  range is kept, none of those that it covers has been, and the ranges kept so far
  cover the addresses of those looked at (`Merged`). The ranges must be as
  `parse_cidr` makes them, without bits behind the prefix: the order is that of the
  networks as they are stored (`src/src/core/ip.cpp:71`);
* the checksum (`ChecksumExact`): a carry takes away a multiple of the largest
  word and never leaves zero of what was not zero (`CarryFacts`). The words with
  the checksum in its place add up to a multiple of the largest word, and the
  carries leave exactly that. The sum must fit the accumulator, which has twice
  the width of a word: `QuestionsAssumption` admits as many words as a word has
  values, 65536, where a header has 30.

**Inductions.** The library's induction theorems take a predicate as a parameter,
which the provers cannot instantiate. Where an induction over data is needed, the
predicate is a set: a subset of `0 .. n` that has 0 and with each number below n
the next one is `0 .. n` (`Climb`, from the well-foundedness of `<`). A fold is
then the end of a run, as in the session, and the five folds of the core functions
are told apart by the name of what they do with an element (`Take`).

**Only model-checked.**

* `Terminates`: liveness under fairness, which TLAPS does not do.
* `TextsSurvive`: five parsers, each a fold with a record for its state, composed
  with the writers of what they read. A proof needs for each pair an invariant
  over two runs that go on at different speeds; TLC takes all lines of the lengths
  at which quotes, escapes, marks and separators can meet.
* `ArrayExact`: what the trie's array holds after
  the folds of insertions. The proofs about the index take the trie as the set of
  its prefixes, which this justifies.
* `CatalogConsistent`: a statement about 1 530 constant entries and the keys that
  a caller can ask for, which TLC settles for good.
* `LinesUnderstood`, `NameBounded` and `ShadowedEverywhere` are false, see below.


## 5. Findings

Each is a run in which TLC finds the one property violated.

* `session_urls`: a URL outside quotes is cut at its `//` as a comment, and the
  line is refused (`src/src/core/strings.cpp:84`), although the README names
  URLs and a seed of the fuzzer has such lines. Behind a `url` token the line is
  accepted as `http://https/` and its role is lost.
* `dns_long`: the limit of 255 characters is not applied to a name that is put
  together from a part and a pointer (`src/src/packet/packet.cpp:163`).
* `policy_interfaces`: a rule for all interfaces is reported as shadowed by one
  for a single interface (`src/src/policy/policy.cpp:226`).

Limits that the properties state as such. Only for one of them, the packet that is
said to be too long, does the repository ask for something else:

* `!any` and `![]` render alike, so two rules are duplicates of which one matches
  nothing and the other everything (`src/src/rules/rules.cpp:106`).
* Jumps to different chains are reported as duplicates
  (`src/src/policy/policy.cpp:212`).
* Values with quotes, or with an escape at their end, do not survive
  `normalize_rule` (`src/src/rules/rules.cpp:250`), and `remove_comment` and
  `split_option_body` disagree about apostrophes and escaped escapes
  (`src/src/core/strings.cpp:82`).
* A packet whose record is said to be longer than the rest of the file is dropped
  with a warning (`src/src/packet/packet.cpp:302`), and the test disagrees:
  `src/tests/packet/packet_tests.cpp` has such a capture, 0x4a = 74 bytes announced
  (line 14) and 71 there, and requires one packet, decoded down to its DNS name
  (lines 28 to 33). Compiled by itself against the library, the test stops at the
  first of these. The model has what the code does: `WholePacketsRead` and
  `EndExplained` ask that the records before it are read and that a diagnostic says
  why the read ended, and `capture` has the test's own capture among its files.
* Ranges added without a normalized text share one key per type and role
  (`src/src/ioc/ioc.cpp:20`), so that `remove_key` removes the youngest of them.
* `advance` moves a reader back if asked for a count near the largest size
  (`src/src/core/byte_view.cpp:77`).


## 6. Abstractions

* Text is abstract: names are sequences of labels, contents sequences of words,
  lines records of fields. Trimming, case, quoting and the choice of delimiters
  are left out, and with them what makes a name or a hash valid.
* Messages of diagnostics are reduced to what a property tells apart;
  diagnostics are sets, without severity and mostly without line numbers.
* Severity, confidence, attributes and sources of indicators, and options of
  rules that nothing reads, are left out.
* Numbers: generations of the index wrap at `GenerationMod` (2^32 in the code),
  ids and the rule set's generation have 64 bits and are bounded by `MaxId` and
  `MaxGeneration`; sids and revisions are bounded by `MaxU32`.
* Only `add` may bring in an indicator without its normalized text (`blank`). One
  of an address type without its parsed address would have a record and a key
  and be filed nowhere (`src/src/ioc/ioc.cpp:349`); the model has none.
* A value in a list is of one type. Left out are texts of other types in which
  `normalize_hash` finds a hash's number of hexadecimal digits, and hashes that
  have dots, slashes or several colons. The name of an address has a label for
  each bit.
* The order in which a firewall tries its rules is external: file order, as the
  audit assumes. `-I` is read as `-A`, as the parser does.

* The texts of `Texts` are sequences of characters, of which only those are told
  apart that a reader takes notice of; a word or a number is one character. A
  lone `!` is read as an empty list, although the code reads the first character
  of an empty text there (`src/src/rules/rules.cpp:87`).
* Widths in `core` are scaled down (bytes of 2 bits, addresses of 4, seconds of
  two decimals), with the relations that the code relies on kept as assumptions.
* Messages have their bytes; files have only the lengths in their headers, and
  addresses, flags and times of packets are left out.

## 7. Not modelled, and the plan

Left out, with the reason:

* the JSON settings of a policy (one regular expression) and the guess of a
  file's form and of a chain's name from words anywhere in the text: no document
  says what they should be;
* `parse_iso8601_utc` and `to_string` of a time, which leave the calendar to the
  C library;
* `crc32` and `tcp_udp_checksum`: arithmetic on bytes that nothing calls;
* the syntax of address expressions and of a rule's header: `Rules` starts from
  what they say;
* the tools, the fuzz harnesses, summaries and the names of codes: formatting and
  calls that are actions here; `read_file_bytes`.

What remains of the plan:

1. **Proofs**: `TextsSurvive`, parser by parser, beginning with the fields of a
   CSV row, whose reader has the smallest state.
