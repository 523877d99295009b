------------------------------- MODULE Inbox -------------------------------
(***************************************************************************)
(* `gmcli notifications list` (cli notifications.rs): the miner's inbox on *)
(* the registry, newest first, read page by page through an id cursor      *)
(* while the registry records more.  A listing is one page, or every page  *)
(* up to a cap; it ends with the cursor that continues it.                 *)
(*                                                                         *)
(* An answer may hold fewer rows than were asked for, may name a cursor    *)
(* with nothing behind it, and may be the answer to a request whose query  *)
(* was dropped on the way.                                                 *)
(***************************************************************************)
EXTENDS Integers, Sequences, SequencesExt, FiniteSets, FiniteSetsExt

CONSTANTS MAX_PAGE_SIZE, ALL_CAP,
          PageLimits, \* --limit
          MaxId,      \* bound on the ids that the registry gives out
          None

VARIABLES messages, \* the ids of the miner's notifications
          listing,  \* the running command, or None
          inbox     \* what the last command printed, or None

inboxVars == <<messages, listing, inbox>>

Below(ids, before) == {m \in ids : before = None \/ m < before}

Newest(ids) == SetToSortSeq(ids, LAMBDA a, b : a > b)

\* The answers to a request for `limit` rows below a cursor.
Pages(limit, before) ==
  LET rows == Newest(Below(messages, before)) IN
  IF rows = <<>> THEN {[ids |-> <<>>, next_before |-> None]}
  ELSE UNION {{[ids |-> SubSeq(rows, 1, k), next_before |-> c] :
                 c \in {rows[k]} \cup (IF k = Len(rows) THEN {None} ELSE {})} :
              k \in 1 .. Min({limit, Len(rows)})}

-----------------------------------------------------------------------------
\* A page is only looked at by itself, and not against the cursor it was asked for.
CursorUnchecked(page, limit, before) ==
  /\ Len(page.ids) <= limit
  /\ \A i \in 2 .. Len(page.ids) : page.ids[i] < page.ids[i - 1]
  /\ page.next_before # None => page.ids # <<>> /\ Last(page.ids) = page.next_before

\* At most the rows asked for, descending from below the cursor, and the next
\* cursor is the last of them.
validate_page(page, limit, before) ==
  /\ Len(page.ids) <= limit
  /\ \A i \in 1 .. Len(page.ids) :
       LET previous == IF i = 1 THEN before ELSE page.ids[i - 1]
       IN page.ids[i] > 0 /\ (previous = None \/ page.ids[i] < previous)
  /\ page.next_before # None => page.ids # <<>> /\ Last(page.ids) = page.next_before

\* The rows beyond the cap go, and the cursor stays where the pages ended.
CursorKept(l) == [ids |-> SubSeq(l.ids, 1, Min({ALL_CAP, Len(l.ids)})), next_before |-> l.next_before]

\* A listing of everything is cut at the cap, with the cursor moved back to it.
Truncated(l) ==
  IF Len(l.ids) <= ALL_CAP THEN [ids |-> l.ids, next_before |-> l.next_before]
  ELSE [ids |-> SubSeq(l.ids, 1, ALL_CAP), next_before |-> l.ids[ALL_CAP]]

\* The command ends, with what it prints.
Printed(l) ==
  inbox' = [known |-> l.known, before |-> l.before]
           @@ (IF l.all THEN Truncated(l) ELSE [ids |-> l.ids, next_before |-> l.next_before])

cmd_notifications_list(all, limit, before) ==
  /\ listing = None
  /\ listing' = [all |-> all, limit |-> limit, before |-> before, ids |-> <<>>,
                 next_before |-> before, known |-> None]
  /\ inbox' = None /\ UNCHANGED messages

\* fetch_inbox: another page is asked for while there is a cursor and the cap is
\* not reached.  `known` is what there was when the first page was answered.
fetch_inbox(page) ==
  LET l == [listing EXCEPT !.ids = @ \o page.ids, !.next_before = page.next_before,
                           !.known = IF @ = None THEN messages ELSE @] IN
  IF l.all /\ l.next_before # None /\ Len(l.ids) < ALL_CAP
  THEN listing' = l /\ UNCHANGED inbox
  ELSE listing' = None /\ Printed(l)

\* fetch_page: an invalid page, like any other failure, ends the command with
\* nothing printed.
fetch_page(page) ==
  /\ IF validate_page(page, listing.limit, listing.next_before) THEN fetch_inbox(page)
     ELSE listing' = None /\ UNCHANGED inbox
  /\ UNCHANGED messages

Answer == listing # None /\ \E page \in Pages(listing.limit, listing.next_before) : fetch_page(page)

QueryDropped == listing # None /\ \E page \in Pages(MAX_PAGE_SIZE, None) : fetch_page(page)

Unreachable == listing # None /\ listing' = None /\ UNCHANGED <<messages, inbox>>

\* The registry records a notification; ids are shared by all miners.
Record ==
  /\ \E id \in 1 .. MaxId : (\A m \in messages : m < id) /\ messages' = messages \cup {id}
  /\ UNCHANGED <<listing, inbox>>

Init == messages = {} /\ listing = None /\ inbox = None

Next ==
  \/ cmd_notifications_list(TRUE, MAX_PAGE_SIZE, None)
  \/ \E limit \in PageLimits, before \in {None} \cup 1 .. MaxId :
       cmd_notifications_list(FALSE, limit, before)
  \/ Answer \/ QueryDropped \/ Unreachable \/ Record

Spec == Init /\ [][Next]_inboxVars

-----------------------------------------------------------------------------
(* Properties                                                              *)

\* A listing has no gap and no repetition, whatever is recorded while its pages
\* are read: it prints, newest first, exactly the notifications from below its
\* cursor down to the cursor it ends with, and all of them when it ends with
\* none; and never more than the cap (validate_page, fetch_inbox).
InboxWhole ==
  inbox # None =>
    /\ inbox.ids = Newest({m \in Below(inbox.known, inbox.before) :
                             inbox.next_before = None \/ m >= inbox.next_before})
    /\ Len(inbox.ids) <= Max({ALL_CAP} \cup PageLimits)
=============================================================================
