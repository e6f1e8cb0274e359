---------------------------- MODULE TradeJournal ----------------------------
(***************************************************************************)
(* The trade journal of one account and contract: app/journal.py and        *)
(* app/db/journal.py.  Fills arrive at the broker day by day; an import     *)
(* reads them through windows and lists that do not agree with each other   *)
(* and stores round trips, each under a key of one of two families: the     *)
(* broker's own pairing ("pair": the pair list, the Performance report, the *)
(* cash-balance book) or a pairing of the stored fills ("fifo").            *)
(*                                                                          *)
(* A fill's id is its position in time.  Fills with equal marks have equal  *)
(* prices and lie within the seconds find_similar_journal_trade tolerates.  *)
(***************************************************************************)
EXTENDS Integers, Sequences, FiniteSets, SequencesExt, FiniteSetsExt

CONSTANTS Brokers,     \* of "tradovate", "other" (ProjectX, Rithmic)
          Mark, MaxQty, MaxFills, MaxDay,
          Overlap,     \* REPORT_OVERLAP_DAYS, OTHER_OVERLAP_DAYS
          MaxFaults

VARIABLES broker,      \* the login's kind
          fills,       \* the broker's fills: [side, qty, mark, day]
          book,        \* the broker's own pairing of them: [open, trips]
          day,
          stored,      \* journal_fills: ids
          rows,        \* journal_trades: [family, first, last, qty]
          seen,        \* journal_seen: pairs of the book already processed
          cursor,      \* journal_report_cursor (0: none)
          phase,       \* where the import is
          window,      \* the report: next day to ask, last day covered, today
          faults

market == <<broker, fills, book, day>>
vars == <<market, stored, rows, seen, cursor, phase, window, faults>>

NoWindow == [from |-> 0, reached |-> 0, today |-> 0]

(***************************************************************************)
(* fifo_pairs, one unit at a time: open is the queue of units that wait for *)
(* the other side, each named by its fill.                                  *)
(***************************************************************************)
Units(f, n) == [i \in 1..n |-> f]

Match(fs, lots, f) ==
  LET opposite == lots.open # <<>> /\ fs[Head(lots.open)].side # fs[f].side
      taken    == IF opposite THEN Min({fs[f].qty, Len(lots.open)}) ELSE 0
      closed   == SubSeq(lots.open, 1, taken)
  IN  [open  |-> SubSeq(lots.open, taken + 1, Len(lots.open)) \o Units(f, fs[f].qty - taken),
       trips |-> lots.trips \union
                 {[first |-> l, last |-> f, qty |-> Cardinality({i \in 1..taken : closed[i] = l})]
                    : l \in Range(closed)}]

Unmatched == [open |-> <<>>, trips |-> {}]

(* The fills are taken in the order of time, those of ids alone. *)
Lots(fs, ids) ==
  LET lots[n \in 0..Len(fs)] ==
        IF n = 0 THEN Unmatched
        ELSE IF n \in ids THEN Match(fs, lots[n - 1], n) ELSE lots[n - 1]
  IN  lots

FifoPairs(ids) == Lots(fills, ids)[Len(fills)].trips

(* The pairs the broker itself books. *)
Pairs == book.trips
ClosedOn(p) == fills[p.last].day

(***************************************************************************)
(* Storing a round trip: the unique key, and find_similar_journal_trade.    *)
(***************************************************************************)
Key(family, p) == [family |-> family, first |-> p.first, last |-> p.last,
                   qty |-> IF family = "fifo" THEN p.qty ELSE 0]
KeyOf(r) == Key(r.family, r)

SameTrip(p, q) ==
  \/ p.first = q.first /\ p.last = q.last
  \/ /\ fills[p.first].side = fills[q.first].side
     /\ p.qty = q.qty
     /\ fills[p.first].mark = fills[q.first].mark
     /\ fills[p.last].mark = fills[q.last].mark

SimilarByKey(family, p, known) == FALSE
Similar(family, p, known) == \E r \in known : r.family # family /\ SameTrip(r, p)

(* The similar rows are looked up before the batch is written. *)
Stored(known, family, trips) ==
  known \union {[family |-> family, first |-> p.first, last |-> p.last, qty |-> p.qty] :
                  p \in {p \in trips : /\ ~Similar(family, p, known)
                                       /\ Key(family, p) \notin {KeyOf(r) : r \in known}}}

Known(p) == \E r \in rows : SameTrip(r, p)

-----------------------------------------------------------------------------
Init ==
  /\ broker \in Brokers
  /\ fills = <<>> /\ book = Unmatched /\ day = 1
  /\ stored = {} /\ rows = {} /\ seen = {}
  /\ cursor = 0
  /\ phase = "idle"
  /\ window = NoWindow
  /\ faults = 0

Fill(side, qty, mark) ==
  /\ Len(fills) < MaxFills
  /\ fills' = Append(fills, [side |-> side, qty |-> qty, mark |-> mark, day |-> day])
  /\ book' = Match(fills', book, Len(fills) + 1)
  /\ UNCHANGED <<broker, day, stored, rows, seen, cursor, phase, window, faults>>

NextDay ==
  /\ day < MaxDay
  /\ day' = day + 1
  /\ UNCHANGED <<broker, fills, book, stored, rows, seen, cursor, phase, window, faults>>

Since(d) == {f \in DOMAIN fills : fills[f].day >= d}

(* import_session: the lists cover the running session.  An import that
   finds another one at work returns at once (import_area's lock). *)
ImportTradovate ==
  /\ broker = "tradovate"
  /\ phase = "idle"
  /\ stored' = stored \union Since(day)
  /\ phase' = "pairs"
  /\ UNCHANGED <<market, rows, seen, cursor, window, faults>>

ReachedBare(c) == c + 1
Reached(c) == IF c = 0 THEN 1 ELSE Max({1, c - Overlap})

(* The pair list may fail, or be empty: then every stored fill is paired
   here. *)
ReadPairs ==
  /\ phase = "pairs"
  /\ \E failed \in BOOLEAN :
       LET listed == IF failed THEN {} ELSE {p \in Pairs : ClosedOn(p) = day} IN
       /\ faults + (IF failed THEN 1 ELSE 0) <= MaxFaults
       /\ faults' = faults + (IF failed THEN 1 ELSE 0)
       /\ rows' = IF listed # {} THEN Stored(rows, "pair", listed)
                  ELSE Stored(rows, "fifo", FifoPairs(stored))
  /\ phase' = "report"
  /\ window' = [from |-> Reached(cursor), reached |-> 0, today |-> day]
  /\ UNCHANGED <<market, stored, seen, cursor>>

(* One window of the Performance report.  A day's rows are complete Overlap
   days later; before that any of them may still be missing. *)
ReadReport(last) ==
  /\ phase = "report"
  /\ LET inside == {p \in Pairs : ClosedOn(p) \in window.from..last}
         final  == {p \in inside : ClosedOn(p) + Overlap <= day}
     IN  \E late \in SUBSET (inside \ final) : rows' = Stored(rows, "pair", final \union late)
  /\ window' = [window EXCEPT !.from = last + 1, !.reached = last]
  /\ UNCHANGED <<market, stored, seen, cursor, phase, faults>>

(* The windows end at today, or at a request that failed: only the days that
   were covered move the cursor. *)
CursorAfter == Max({cursor, window.reached})

EndReport ==
  /\ phase = "report"
  /\ window.from > window.today \/ faults < MaxFaults
  /\ faults' = IF window.from > window.today THEN faults ELSE faults + 1
  /\ cursor' = CursorAfter
  /\ phase' = "book"
  /\ window' = NoWindow
  /\ UNCHANGED <<market, stored, rows, seen>>

(* _history_from_cash_log: the pairs of the whole book that were not
   processed yet, as far as they can be looked up by id. *)
ProcessedAll(todo, found) == todo
Processed(todo, found) == found

ReadBook ==
  /\ phase = "book"
  /\ LET todo == {p \in Pairs : p \notin seen} IN
     \E found \in SUBSET todo :
       /\ found = todo \/ faults < MaxFaults
       /\ faults' = IF found = todo THEN faults ELSE faults + 1
       /\ rows' = Stored(rows, "pair", found)
       /\ seen' = seen \union Processed(todo, found)
  /\ phase' = "idle"
  /\ UNCHANGED <<market, stored, cursor, window>>

(* _import_fills: the whole history while the account has no trades, the last
   days from then on; the pairing runs over every stored fill. *)
FetchedFrom == IF rows = {} THEN 1 ELSE day - Overlap
PairedFetched(fetched) == fetched
PairedFills(fetched) == stored \union fetched

ImportOther ==
  /\ broker = "other"
  /\ LET fetched == Since(FetchedFrom) IN
     /\ stored' = stored \union fetched
     /\ rows' = Stored(rows, "fifo", FifoPairs(PairedFills(fetched)))
  /\ UNCHANGED <<market, seen, cursor, phase, window, faults>>

(* The process stops in the middle of an import. *)
Restart ==
  /\ phase # "idle"
  /\ phase' = "idle"
  /\ window' = NoWindow
  /\ UNCHANGED <<market, stored, rows, seen, cursor, faults>>

Next ==
  \/ \E side \in {"Buy", "Sell"}, qty \in 1..MaxQty, mark \in Mark : Fill(side, qty, mark)
  \/ NextDay
  \/ ImportTradovate \/ ReadPairs \/ EndReport \/ ReadBook
  \/ \E last \in window.from..window.today : ReadReport(last)
  \/ ImportOther
  \/ Restart

Spec == Init /\ [][Next]_vars

-----------------------------------------------------------------------------
(* Every variable keeps its type, no key is stored twice, and a row names
   fills of opposite sides. *)
TypeOK ==
  /\ stored \subseteq DOMAIN fills
  /\ broker \in Brokers /\ day \in 1..MaxDay /\ Len(fills) <= MaxFills
  /\ \A r \in rows : /\ r.family \in {"pair", "fifo"}
                     /\ r.first < r.last
                     /\ fills[r.first].side # fills[r.last].side
  /\ \A r, s \in rows : KeyOf(r) = KeyOf(s) => r = s
  /\ seen \subseteq Pairs
  /\ cursor \in 0..day
  /\ phase \in {"idle", "pairs", "report", "book"}

(* A round trip of the broker's that the import crossed off, by marking its
   pair or by moving the report's cursor past the days that may still change,
   is in the journal: neither a failed lookup nor a late booking loses it. *)
CrossedOffIsStored ==
  /\ \A p \in seen : Known(p)
  /\ \A p \in Pairs : ClosedOn(p) + Overlap <= cursor => Known(p)

(* While no fill was missed, every stored trade is a round trip of the
   broker's, whole or cut by nothing: a fetch that starts inside an open
   position does not turn the exit into an entry (_import_fills). *)
Complete == \A f \in DOMAIN fills : f < Max(stored \union {0}) => f \in stored
CompleteIsExact == Complete => \A r \in rows : \E p \in Pairs : r.first = p.first /\ r.last = p.last

(* One round trip of the broker's is one row, whatever list it came from
   (find_similar_journal_trade). *)
StoredOnce == \A r, s \in rows : r.first = s.first /\ r.last = s.last => r = s

(* "the FIFO pairing runs over the whole history, so a window that starts
   inside an open position never fabricates a trade" (db/journal.py,
   journal_fills_for). *)
NothingFabricated == \A r \in rows : \E p \in Pairs : r.first = p.first /\ r.last = p.last
=============================================================================
