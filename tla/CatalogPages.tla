---------------------------- MODULE CatalogPages ----------------------------
(***************************************************************************)
(* Lists that are read page by page while they change: projects and rules  *)
(* (crates/storage/src/project_rule_contract.rs), launch profiles          *)
(* (profile_contract.rs, repository.rs) and the history of runs            *)
(* (history_contract.rs), with the readers of the desktop that put the     *)
(* pages together (lib/projectRules.ts, lib/launchProfiles.ts,             *)
(* features/history/HistoryPage.tsx).                                      *)
(*                                                                         *)
(* Every page is one query under the lock of the service, which remembers  *)
(* nothing between two pages: the cursor says, in text, where to go on.    *)
(* Texts are sequences of bytes.                                           *)
(***************************************************************************)
EXTENDS Integers, Sequences, SequencesExt, FiniteSets

CONSTANTS
  Missing,    \* no cursor, no answer, nothing that could be decoded
  Ids,        \* identifiers of projects, rules, profiles or runs
  Lists       \* the lists Init chooses from

(* initial: the keys of the records there are: names, priorities or start  *)
(* times.  keys: those that changes choose from.  limit: records of a      *)
(* page; capacity: records a reader accepts; wire: the size of a page that *)
(* can be sent, in records, of which those of "large" count twice.         *)
(* Bounds: changes, loads, failures.                                       *)
ASSUME ListsAreLists ==
  \A l \in Lists :
    /\ l.kind \in {"Projects", "Rules", "Profiles", "History"}
    /\ DOMAIN l.initial \subseteq Ids /\ l.large \subseteq Ids
    /\ {l.limit, l.capacity, l.wire} \subseteq Nat \ {0}
    /\ {l.changes, l.loads, l.failures} \subseteq Nat

VARIABLES
  list,       \* the element of Lists that is read
  records,    \* the table: what became of every identifier
  reader,     \* the desktop
  calls,      \* its calls, on their way or answered
  untouched,  \* history: the records that are as they were when it began
  moved,      \* history: a record has got another key since
  counts      \* bounds used up

pageVars == <<list, records, reader, calls, untouched, moved, counts>>

Never   == [at |-> "Never", key |-> Missing]
Deleted == [at |-> "Deleted", key |-> Missing]
Record(key) == [at |-> "Stored", key |-> key]

Stored == {[key |-> records[i].key, id |-> i] : i \in {j \in Ids : records[j].at = "Stored"}}

----------------------------------------------------------------------------
(* The order of a list *)

(* COLLATE BINARY *)
LexLess(s, t) ==
  \E i \in 0..Len(s) :
    /\ i < Len(t)
    /\ \A j \in 1..i : s[j] = t[j]
    /\ i = Len(s) \/ s[i + 1] < t[i + 1]

InOrder(a, b) ==
  CASE list.kind = "Rules"   -> a.key > b.key \/ (a.key = b.key /\ LexLess(a.id, b.id))
    [] list.kind = "History" -> LexLess(b.key, a.key) \/ (a.key = b.key /\ LexLess(b.id, a.id))
    [] OTHER                 -> LexLess(a.key, b.key) \/ (a.key = b.key /\ LexLess(a.id, b.id))

(* The records behind a position, as the query sorts them *)
Behind(position) == SetToSortSeq({r \in Stored : InOrder(position, r)}, InOrder)
All              == SetToSortSeq(Stored, InOrder)

----------------------------------------------------------------------------
(* Cursors; the prefix that names the list is left out *)

Bar == 124
Minus == 45
Digits == 48..57

Decimal(n) ==
  LET digits[m \in Nat] == IF m < 10 THEN <<48 + m>> ELSE digits[m \div 10] \o <<48 + (m % 10)>>
  IN IF n < 0 THEN <<Minus>> \o digits[-n] ELSE digits[n]

(* str::parse *)
Parsed(s) ==
  LET negative == s # <<>> /\ s[1] = Minus
      digits   == IF negative THEN Tail(s) ELSE s
      value[i \in 0..Len(digits)] == IF i = 0 THEN 0 ELSE 10 * value[i - 1] + digits[i] - 48
  IN IF digits = <<>> \/ ~ToSet(digits) \subseteq Digits THEN Missing
     ELSE IF negative THEN -value[Len(digits)] ELSE value[Len(digits)]

(* split_once('|') *)
Split(s) ==
  IF Bar \notin ToSet(s) THEN Missing
  ELSE LET at == CHOOSE i \in 1..Len(s) : s[i] = Bar /\ \A j \in 1..i - 1 : s[j] # Bar
       IN [before |-> SubSeq(s, 1, at - 1), after |-> SubSeq(s, at + 1, Len(s))]

(* A name, or a start time, is as long as the text says it is: it may hold *)
(* a separator, and it meets the identifier without any.                   *)
EncodeText(r) == Decimal(Len(r.key)) \o <<Bar>> \o r.key \o r.id
EncodeRule(r) == Decimal(r.key) \o <<Bar>> \o r.id

(* The first n bytes and the rest, unless that cuts a character *)
Cut(s, n) ==
  IF n \notin 0..Len(s) \/ (n < Len(s) /\ s[n + 1] \in 128..191) THEN Missing
  ELSE [key |-> SubSeq(s, 1, n), id |-> SubSeq(s, n + 1, Len(s))]

DecodeText(text) ==
  LET parts == Split(text)
      n     == IF parts = Missing THEN Missing ELSE Parsed(parts.before)
      r     == IF n = Missing THEN Missing ELSE Cut(parts.after, n)
  IN IF r = Missing THEN Missing
     ELSE IF r.id = <<>> \/ EncodeText(r) # text THEN Missing ELSE r

DecodeRule(text) ==
  LET parts == Split(text)
      n     == IF parts = Missing THEN Missing ELSE Parsed(parts.before)
      r     == [key |-> n, id |-> parts.after]
  IN IF n = Missing THEN Missing
     ELSE IF r.id = <<>> \/ EncodeRule(r) # text THEN Missing ELSE r

(* A start time and the name of a profile must not be empty either. *)
DecodeNonEmpty(text) ==
  LET r == DecodeText(text) IN IF r = Missing THEN Missing ELSE IF r.key = <<>> THEN Missing ELSE r
DecodeRun(text)     == DecodeNonEmpty(text)
DecodeProfile(text) == DecodeNonEmpty(text)

----------------------------------------------------------------------------
(* Pages *)

(* One record more than the limit is fetched, to know whether there are *)
(* more; it is not shown.                                               *)
Page(found, limit) ==
  [items |-> SubSeq(found, 1, IF Len(found) < limit THEN Len(found) ELSE limit),
   more  |-> Len(found) > limit]

WireSize(items) == Len(items) + Cardinality({i \in 1..Len(items) : items[i].id \in list.large})

Refused == [ok |-> FALSE, items |-> <<>>, next |-> Missing]
Answer(page, next) ==
  IF WireSize(page.items) > list.wire THEN Refused
  ELSE [ok |-> TRUE, items |-> page.items, next |-> next]

NextText(page) == IF page.more THEN EncodeText(page.items[Len(page.items)]) ELSE Missing
NextRule(page) == IF page.more THEN EncodeRule(page.items[Len(page.items)]) ELSE Missing

FaultyListProjects(cursor, limit) ==   \* the next page begins with the record that was fetched too many
  LET position == IF cursor = Missing THEN Missing ELSE DecodeText(cursor)
      found    == IF position = Missing THEN All ELSE Behind(position)
      page     == Page(found, limit)
  IN Answer(page, IF page.more THEN EncodeText(found[limit + 1]) ELSE Missing)

ListProjects(cursor, limit) ==
  LET position == IF cursor = Missing THEN Missing ELSE DecodeText(cursor)
      page     == Page(IF cursor = Missing THEN All ELSE Behind(position), limit)
  IN IF cursor # Missing /\ position = Missing THEN Refused ELSE Answer(page, NextText(page))

ListClassificationRules(cursor, limit) ==
  LET position == IF cursor = Missing THEN Missing ELSE DecodeRule(cursor)
      page     == Page(IF cursor = Missing THEN All ELSE Behind(position), limit)
  IN IF cursor # Missing /\ position = Missing THEN Refused ELSE Answer(page, NextRule(page))

StoredLaunchProfiles(position, limit) ==
  Page(IF position = Missing THEN All ELSE Behind(position), limit)

LaunchProfiles(cursor, limit) ==
  LET position == IF cursor = Missing THEN Missing ELSE DecodeProfile(cursor)
      page     == StoredLaunchProfiles(position, limit)
  IN IF cursor # Missing /\ position = Missing THEN Refused ELSE Answer(page, NextText(page))

RunHistory(cursor, limit) ==
  LET position == IF cursor = Missing THEN Missing ELSE DecodeRun(cursor)
      page     == Page(IF cursor = Missing THEN All ELSE Behind(position), limit)
  IN IF cursor # Missing /\ position = Missing THEN Refused ELSE Answer(page, NextText(page))

Read(cursor, limit) ==
  CASE list.kind = "Projects" -> ListProjects(cursor, limit)
    [] list.kind = "Rules"    -> ListClassificationRules(cursor, limit)
    [] list.kind = "Profiles" -> LaunchProfiles(cursor, limit)
    [] list.kind = "History"  -> RunHistory(cursor, limit)

----------------------------------------------------------------------------
(* What changes meanwhile *)

Within(bound) == counts[bound] < list[bound]
Count(bound)  == counts' = [counts EXCEPT ![bound] = @ + 1]

Create(i, key) ==
  /\ records[i] = Never
  /\ records' = [records EXCEPT ![i] = Record(key)]
  /\ UNCHANGED <<untouched, moved>>

(* A project or profile is renamed, a rule gets another priority. *)
Change(i, key) ==
  /\ records[i].at = "Stored" /\ records[i].key # key /\ list.kind # "History"
  /\ records' = [records EXCEPT ![i] = Record(key)]
  /\ untouched' = {r \in untouched : r.id # i}
  /\ moved' = TRUE

Delete(i) ==
  /\ records[i].at = "Stored" /\ list.kind # "History"
  /\ records' = [records EXCEPT ![i] = Deleted]
  /\ untouched' = {r \in untouched : r.id # i}
  /\ UNCHANGED moved

RecordsChange ==
  /\ Within("changes") /\ Count("changes")
  /\ \E i \in Ids : Delete(i) \/ \E key \in list.keys : Create(i, key) \/ Change(i, key)
  /\ UNCHANGED <<list, reader, calls>>

----------------------------------------------------------------------------
(* The readers of the desktop *)

Call(cursor, limit) ==
  [sequence |-> reader.sequence, cursor |-> cursor, limit |-> limit, answer |-> Missing]
PageLimit(shown) ==
  IF list.kind = "History" /\ list.capacity - shown < list.limit THEN list.capacity - shown
  ELSE list.limit

(* The page is opened, refreshed, or the connection is another one: what *)
(* was read is dropped, and so are the answers that are still to come.   *)
Load ==
  /\ Within("loads") /\ Count("loads")
  /\ reader' = [sequence |-> reader.sequence + 1, at |-> "Loading", why |-> "",
                items |-> <<>>, next |-> Missing, cursors |-> {}]
  /\ calls' = calls \cup {[Call(Missing, list.limit) EXCEPT !.sequence = reader.sequence + 1]}
  /\ untouched' = Stored /\ moved' = FALSE
  /\ UNCHANGED <<list, records>>

(* The Supervisor reads a page; a call may fail, before or after. *)
ServePage(c) ==
  /\ c.answer = Missing
  /\ \/ /\ calls' = (calls \ {c}) \cup {[c EXCEPT !.answer = Read(c.cursor, c.limit)]}
        /\ UNCHANGED counts
     \/ /\ Within("failures") /\ Count("failures")
        /\ calls' = (calls \ {c}) \cup {[c EXCEPT !.answer = Refused]}
  /\ UNCHANGED <<list, records, reader, untouched, moved>>

ReadIds      == {reader.items[i].id : i \in 1..Len(reader.items)}
Repeats(c)   == \E i \in 1..Len(c.answer.items) : c.answer.items[i].id \in ReadIds
Exceeds(c)   == Len(reader.items) + Len(c.answer.items) > list.capacity
(* A reader refuses a page that does not get it any further. *)
Stalls(c)    == c.answer.next # Missing /\ (c.answer.items = <<>> \/ c.answer.next \in reader.cursors)
Joined(c)    == reader.items \o c.answer.items
Pages        == (list.capacity + list.limit - 1) \div list.limit
IsCurrent(c) == c.sequence = reader.sequence /\ reader.at = "Loading"

Fail(c, why) ==
  /\ calls' = calls \ {c}
  /\ reader' = IF list.kind = "History" /\ c.cursor # Missing
               THEN [reader EXCEPT !.at = "Shown", !.why = why]
               ELSE [reader EXCEPT !.at = "Failed", !.why = why, !.items = <<>>, !.next = Missing]

Reject(c) ==
  /\ IsCurrent(c) /\ c.answer # Missing
  /\ \/ ~c.answer.ok /\ Fail(c, "Refused")
     \/ c.answer.ok /\ Exceeds(c) /\ Fail(c, "Full")
     \/ c.answer.ok /\ ~Exceeds(c) /\ Repeats(c) /\ Fail(c, "Repeated")
  /\ UNCHANGED <<list, records, untouched, moved, counts>>

Acceptable(c) ==
  /\ IsCurrent(c) /\ c.answer # Missing
  /\ c.answer.ok /\ ~Exceeds(c) /\ ~Repeats(c) /\ ~Stalls(c)

(* listProjects, listClassificationRules, listLaunchProfiles: page after *)
(* page until there is none                                              *)
AcceptAndGoOn(c) ==
  /\ list.kind # "History" /\ Acceptable(c)
  /\ LET cursors == reader.cursors \cup {c.answer.next}
     IN \/ /\ c.answer.next = Missing
           /\ reader' = [reader EXCEPT !.at = "Complete", !.items = Joined(c)]
           /\ calls' = calls \ {c}
        \/ /\ c.answer.next # Missing /\ Cardinality(cursors) < Pages
           /\ reader' = [reader EXCEPT !.items = Joined(c), !.cursors = cursors]
           /\ calls' = (calls \ {c}) \cup {Call(c.answer.next, list.limit)}
        \/ /\ c.answer.next # Missing /\ Cardinality(cursors) >= Pages
           /\ Fail(c, "Full")
  /\ UNCHANGED <<list, records, untouched, moved, counts>>

(* acceptHistoryPage; the next page is read when the user asks for it *)
AcceptHistoryPage(c) ==
  /\ list.kind = "History" /\ Acceptable(c)
  /\ LET full == Len(Joined(c)) >= list.capacity
     IN reader' = [reader EXCEPT
          !.at = IF c.answer.next = Missing THEN "Complete" ELSE IF full THEN "Limited" ELSE "Shown",
          !.items = Joined(c), !.next = IF full THEN Missing ELSE c.answer.next, !.why = "",
          !.cursors = IF c.answer.next = Missing THEN @ ELSE @ \cup {c.answer.next}]
  /\ calls' = calls \ {c}
  /\ UNCHANGED <<list, records, untouched, moved, counts>>

LoadMore ==
  /\ reader.at = "Shown"
  /\ reader' = [reader EXCEPT !.at = "Loading", !.why = ""]
  /\ calls' = calls \cup {Call(reader.next, PageLimit(Len(reader.items)))}
  /\ UNCHANGED <<list, records, untouched, moved, counts>>

Drop(c) ==
  /\ c.answer # Missing /\ ~IsCurrent(c)
  /\ calls' = calls \ {c}
  /\ UNCHANGED <<list, records, reader, untouched, moved, counts>>

PagesInit ==
  /\ list \in Lists
  /\ records = [i \in Ids |-> IF i \in DOMAIN list.initial THEN Record(list.initial[i]) ELSE Never]
  /\ reader = [sequence |-> 0, at |-> "Closed", why |-> "", items |-> <<>>, next |-> Missing,
               cursors |-> {}]
  /\ calls = {} /\ untouched = {} /\ moved = FALSE
  /\ counts = [changes |-> 0, loads |-> 0, failures |-> 0]

PagesNext ==
  \/ RecordsChange \/ Load \/ LoadMore
  \/ \E c \in calls : ServePage(c) \/ Reject(c) \/ AcceptAndGoOn(c) \/ AcceptHistoryPage(c) \/ Drop(c)

PagesSpec == PagesInit /\ [][PagesNext]_pageVars

----------------------------------------------------------------------------
(* Pages put together are one list, whatever was created, renamed, moved   *)
(* or deleted between them: what they show is in order and nothing twice,  *)
(* nothing that was there all the time is passed over, and a list that has *)
(* no next page is complete.  A reader gives up only because a read was    *)
(* refused, there is more than it takes, or a record moved from a page it  *)
(* had read to a later one; runs never move, so a history never gives up   *)
(* for that; and no page leads a reader back to where it was.              *)
PagesAreComplete ==
  LET shown == ToSet(reader.items) IN
  /\ \A i, j \in 1..Len(reader.items) : i < j =>
       /\ InOrder(reader.items[i], reader.items[j])
       /\ reader.items[i].id # reader.items[j].id
  /\ \A r \in untouched \ shown :
       reader.at # "Complete" /\ \A s \in shown : InOrder(s, r)
  /\ \A c \in calls : IsCurrent(c) /\ c.answer # Missing => ~Stalls(c)
  /\ reader.why = "Repeated" => moved /\ list.kind # "History"
  /\ reader.why = "Refused" => counts.failures > 0 \/ \E i \in list.large : records[i] # Never
=============================================================================
