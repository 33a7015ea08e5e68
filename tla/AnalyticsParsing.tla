---------------------------- MODULE AnalyticsParsing ----------------------------
(* What TikTok's pages say of a video, as the legacy scripts saved it in a   *)
(* JSON file and as a row of a CSV summary, read into snapshots:              *)
(* backend/app/providers/tiktok/analytics.py.                                 *)
(* A text is the sequence of its numbers, each in thousandths and with the    *)
(* mark that follows it; spaces, commas and the case of letters are gone. An  *)
(* empty text is a blank one or a marker, such as ERROR or N/A. A time is     *)
(* its clock reading and its offset from UTC, if it has one.                  *)
EXTENDS Integers, Sequences, SequencesExt, FiniteSetsExt, Functions

CONSTANT None

Unit == 1000

(* _clean_text and _first_present: what is absent, blank or a marker gives    *)
(* way to what comes after it.                                                *)
Present(cell) == cell # None /\ cell # <<>>
FirstPresent(cells) ==
  LET present == {i \in DOMAIN cells : Present(cells[i])}
  IN IF present = {} THEN None ELSE cells[Min(present)]

Marks(text) == [i \in DOMAIN text |-> text[i].mark]

(* _parse_count: a number with a suffix, or with a fraction, is an estimate.  *)
(* int() cuts a product of floats off, which may fall short of the integer    *)
(* that the decimal fraction stands for (8.2M becomes 8199999): "short" says  *)
(* that it does.                                                              *)
ParseCount(cell, short) ==
  IF ~Present(cell) \/ Marks(cell) \notin {<<"">>, <<"k">>, <<"m">>} THEN [views |-> None, est |-> None]
  ELSE LET n == cell[1].n
           scaled == IF cell[1].mark = "k" THEN n ELSE n * 1000
           lost == IF n % Unit # 0 /\ short THEN 1 ELSE 0
       IN IF cell[1].mark # "" THEN [views |-> None, est |-> scaled - lost]
          ELSE [views |-> IF n % Unit = 0 THEN n \div Unit ELSE None, est |-> n \div Unit]

(* _parse_duration_seconds: hours, minutes and seconds in that order, each    *)
(* optional, h and m possibly with a colon after them and seconds possibly    *)
(* without their mark; or else two or three numbers between colons, of which  *)
(* minutes and seconds have at most two digits and only seconds a fraction.   *)
(* Thousandths are exact here. Only counts and shares may have commas: a      *)
(* duration with one is unreadable.                                           *)
Weight(mark) ==
  CASE mark \in {"h", "h:"} -> 3600 [] mark \in {"m", "m:"} -> 60 [] mark \in {"s", ""} -> 1 [] OTHER -> 0
IsLegacy(text) ==
  /\ \A i \in DOMAIN text : Weight(text[i].mark) > 0
  /\ \A i, k \in DOMAIN text : i < k => Weight(text[i].mark) > Weight(text[k].mark)
IsColons(text) ==
  /\ Marks(text) \in {<<":", "">>, <<":", ":", "">>}
  /\ \A i \in 1..(Len(text) - 1) : text[i].n % Unit = 0
  /\ \A i \in (Len(text) - 1)..Len(text) : text[i].n < 100 * Unit
ColonWeight(text, i) == CASE Len(text) - i = 2 -> 3600 [] Len(text) - i = 1 -> 60 [] OTHER -> 1
Total(text, weight(_)) == FoldFunction(+, 0, [i \in DOMAIN text |-> text[i].n * weight(i)])
ParseDuration(cell) ==
  IF ~Present(cell) THEN None
  ELSE IF IsLegacy(cell) THEN Total(cell, LAMBDA i : Weight(cell[i].mark))
  ELSE IF IsColons(cell) THEN Total(cell, LAMBDA i : ColonWeight(cell, i))
  ELSE None

(* _parse_percent. *)
ParsePercent(cell) == IF Present(cell) /\ Marks(cell) = <<"%">> THEN cell[1].n ELSE None

(* _parse_snapshot_at: a time without an offset is UTC.                       *)
ParseSnapshotAt(time) ==
  IF ~Present(time) \/ ~time.iso THEN None
  ELSE time.clock - (IF time.offset = None THEN 0 ELSE time.offset)

Snapshot(video, views, short) ==
  [video_id |-> video.id,
   snapshot_at |-> ParseSnapshotAt(FirstPresent(<<video.scraped_at, video.snapshot_at>>)),
   count |-> ParseCount(views, short),
   total_play |-> ParseDuration(video.total_play),
   avg_watch |-> ParseDuration(video.avg_watch),
   full_watch |-> ParsePercent(video.full_watch)]

(* parse_legacy_video_json: views are looked for in three places. The other   *)
(* numbers are in kpis, and unknown when that is not an object.               *)
ParseVideoJson(video, short) ==
  Snapshot(video, FirstPresent(<<video.kpi_views, video.views, video.views_top>>), short)

(* Mutant: the row knows the time only under its older name. *)
ParseSummaryRowLate(video, short) ==
  Snapshot([video EXCEPT !.scraped_at = None], video.kpi_views, short)

(* parse_legacy_summary_row: the summary has one column for the views. *)
ParseSummaryRow(video, short) == Snapshot(video, video.kpi_views, short)

(* snapshots_by_video_id: a later snapshot takes the place of an earlier one  *)
(* with its id. Rows without an id all have the empty one.                    *)
SnapshotsByVideoId(snapshots) ==
  LET ids == {snapshots[i].video_id : i \in DOMAIN snapshots}
      last(id) == Max({i \in DOMAIN snapshots : snapshots[i].video_id = id})
  IN [id \in ids |-> snapshots[last(id)]]

===============================================================================
