------------------------------ MODULE SessionHooks -----------------------------
(***************************************************************************)
(* Hooks of the workspace plugin that follow a session, in                 *)
(* workspace/src/hooks: notification-channels.ts (who is told what, and    *)
(* how often), tool-output-safety.ts (how much of an output is kept) and   *)
(* preemptive-compaction.ts (when a session is summarized).                *)
(*                                                                         *)
(* A string that may be missing is "" when it is.  What is joined with     *)
(* colons is the sequence of its parts.  An output is the sequence of the  *)
(* lengths of its lines.                                                   *)
(***************************************************************************)
EXTENDS Integers, Sequences, FiniteSets, SequencesExt, FiniteSetsExt

CONSTANTS
  Trim(_), Fingerprint(_), AsksPermission(_),   \* of strings
  ValidZones, SystemZone, MinutesAhead(_),      \* time zones, and how far their clocks are ahead
  Day,                                          \* 1440 minutes
  DEDUP_TTL_MS, SHORT_TTL_MS,                   \* five minutes, and one second
  MAX_OUTPUT_CHARS, MAX_OUTPUT_LINES, DEFAULT_MAX_OUTPUT_TOKENS, MinChars, NoteChars,
  COMPACTION_COOLDOWN_MS, MIN_TOKENS_TO_CHECK, Callers, Clock

OrElse(string, default) == IF string = "" THEN default ELSE string
-----------------------------------------------------------------------------
(* The window of the quiet hours, as clocks.  A clock that cannot be read  *)
(* is NoClock, and `raw' is <<>> or the two ends of the setting.           *)
NoClock == -1

resolveTimezone(raw) ==
  LET fallback == IF SystemZone \in ValidZones THEN SystemZone ELSE "UTC"
  IN IF raw # "" /\ raw \in ValidZones THEN raw ELSE fallback

parseQuietHoursWindow(raw, zone) ==
  IF raw = <<>> \/ NoClock \in {raw[1], raw[2]} \/ raw[1] = raw[2] THEN <<>>
  ELSE <<[start |-> raw[1], end |-> raw[2], timezone |-> resolveTimezone(zone)]>>

getCurrentMinutesInTimezone(now, zone) == (now + MinutesAhead(zone)) % Day

isInQuietHours(minute, window) ==
  IF window.start > window.end THEN minute >= window.start \/ minute < window.end
  ELSE minute >= window.start /\ minute < window.end
-----------------------------------------------------------------------------
(* The route of a notice: the root session, the child and the task it is   *)
(* about.                                                                  *)
NoRoute == [root |-> "", child |-> "", task |-> ""]

(* Without a root there is no route.                                       *)
normalizeRoutingContext(route) ==
  IF Trim(route.root) = "" THEN NoRoute
  ELSE [root |-> Trim(route.root), child |-> Trim(route.child), task |-> Trim(route.task)]

Parts(strings) == SelectSeq(strings, LAMBDA s : s # "")
(* The child, unless it is the root itself.                                *)
OtherChild(route) == IF route.child = route.root THEN "" ELSE route.child

hasDelegatedRoutingContext(route) ==
  LET r == normalizeRoutingContext(route) IN r.root # "" /\ (OtherChild(r) # "" \/ r.task # "")

buildRoutingDedupeKey(route) ==
  LET r == normalizeRoutingContext(route)
      parts == Parts(<<r.root, r.child, r.task>>)
  IN IF Len(parts) <= 1 THEN <<>> ELSE parts

buildRoutingContextSuffix(route) ==
  LET r == normalizeRoutingContext(route)
      of(what, s) == IF s = "" THEN <<>> ELSE <<<<what, s>>>>
      crumbs == of("root", r.root) \o of("child", OtherChild(r)) \o of("task", r.task)
  IN IF Len(crumbs) <= 1 THEN <<>> ELSE crumbs

buildDesktopRoutingSuffix(route) ==
  LET r == normalizeRoutingContext(route)
  IN IF OtherChild(r) = "" /\ r.task = "" THEN <<>>
     ELSE Parts(<<OtherChild(r), r.task>>) \o <<r.root>>
-----------------------------------------------------------------------------
(* A notice: `key' is what tells it from others; `logRoute', `route' and   *)
(* `desktopRoute' are what of the route follows the message in the log, in *)
(* a toast and on the desktop.                                             *)
Notice(key, title, level, ttl, extra) ==
  [key |-> key, title |-> title, desktopTitle |-> title, level |-> level, ttl |-> ttl, extra |-> extra,
   logRoute |-> <<>>, route |-> <<>>, desktopRoute |-> <<>>]

(* What a session says of itself has a route, which the message for the    *)
(* log leaves out.                                                         *)
Routed(notice, route) ==
  [notice EXCEPT !.desktopTitle = IF hasDelegatedRoutingContext(route) THEN <<"delegated", @>> ELSE @,
                 !.route = buildRoutingContextSuffix(route),
                 !.desktopRoute = buildDesktopRoutingSuffix(route)]

createEventKey(input) == <<input.sessionID, input.callID, input.tool>>

(* After a tool has run: a task is always told, a doctor with its status.  *)
getNotificationMessage(input) ==
  LET extra == [sessionID |-> input.sessionID, callID |-> input.callID, tool |-> input.tool,
                source |-> "", route |-> NoRoute]
      told(title, level) == <<Notice(createEventKey(input), title, level, DEDUP_TTL_MS, extra)>>
  IN CASE input.tool = "task" -> told(<<"Task Complete">>, "info")
       [] input.tool = "doctor" ->
            told(<<"Doctor Status">>, IF input.status \in {"error", "warn"} THEN input.status ELSE "info")
       [] OTHER -> <<>>

getSessionReadyNotification(input) ==
  LET source == OrElse(Trim(input.source), "session.idle")
  IN Routed(Notice(<<input.sessionID, source>> \o buildRoutingDedupeKey(input.route),
                   <<"Ready for Input">>, "info", SHORT_TTL_MS,
                   [sessionID |-> input.sessionID, callID |-> "", tool |-> "", source |-> source,
                    route |-> input.route]),
            input.route)

buildInputNeededDedupeToken(input) ==
  IF Trim(input.callID) # "" THEN <<Trim(input.callID)>>
  ELSE IF Trim(input.questionText) # "" THEN <<"text", Fingerprint(Trim(input.questionText))>>
  ELSE <<OrElse(input.kind, "input")>>

resolveInputNeededKind(input) ==
  IF input.kind # "" THEN input.kind
  ELSE IF AsksPermission(Trim(input.questionText)) THEN "permission" ELSE "question"

getInputNeededNotification(input) ==
  LET source == OrElse(Trim(input.source), OrElse(input.kind, "input-needed"))
      title == CASE resolveInputNeededKind(input) = "permission" -> <<"Permission Needed">>
                 [] resolveInputNeededKind(input) = "plan" -> <<"Plan Input Needed">>
                 [] OTHER -> <<"Question for You">>
  IN Routed(Notice(<<input.sessionID, source>> \o buildInputNeededDedupeToken(input)
                     \o buildRoutingDedupeKey(input.route),
                   title, "info", SHORT_TTL_MS,
                   [sessionID |-> input.sessionID, callID |-> input.callID, tool |-> input.tool,
                    source |-> source, route |-> input.route]),
            input.route)
-----------------------------------------------------------------------------
(* In the strict mode the log learns neither tool, source nor route.       *)
buildNotificationExtra(extra, privacy) ==
  IF privacy = "balanced" THEN extra
  ELSE [sessionID |-> extra.sessionID, callID |-> extra.callID]

mapLevelToToastVariant(level) ==
  CASE level = "error" -> "error" [] level = "warn" -> "warning" [] level = "debug" -> "info" [] OTHER -> "success"

pruneDedup(sent, now) == {s \in sent : now - s.timestamp <= s.ttl}

(* createNotificationDispatcher.  `options' are the settings and the       *)
(* channels there are; `sent' is shared by all hooks.  A notice that is    *)
(* not told in quiet hours is not noted either.                            *)
Open(options) == options.log \/ options.toast \/ options.desktop
Quiet(options, minute) ==
  LET window == parseQuietHoursWindow(options.quietHours, options.timezone)
  IN window # <<>> /\ isInQuietHours(getCurrentMinutesInTimezone(minute, window[1].timezone), window[1])

dispatch(sent, notice, options, now, minute) ==
  LET left == pruneDedup(sent, now)
      strict == options.privacy # "balanced"
  IN IF ~options.enabled \/ ~Open(options) \/ Quiet(options, minute) THEN [sent |-> sent, told |-> <<>>]
     ELSE IF \E s \in left : s.key = notice.key THEN [sent |-> left, told |-> <<>>]
     ELSE [sent |-> left \cup {[key |-> notice.key, timestamp |-> now, ttl |-> notice.ttl]},
           told |->
             (IF options.log
              THEN <<[on |-> "log", route |-> IF strict THEN notice.logRoute ELSE notice.route,
                      extra |-> buildNotificationExtra(notice.extra, options.privacy)]>> ELSE <<>>)
             \o (IF options.toast
                 THEN <<[on |-> "toast", route |-> notice.route, variant |-> mapLevelToToastVariant(notice.level)]>>
                 ELSE <<>>)
             \o (IF options.desktop /\ options.notifier
                 THEN <<[on |-> "desktop", title |-> notice.desktopTitle, route |-> notice.desktopRoute]>>
                 ELSE <<>>)]
-----------------------------------------------------------------------------
FirstOf(list, n) == SubSeq(list, 1, IF Len(list) > n THEN n ELSE Len(list))
Smaller(m, n) == IF m < n THEN m ELSE n
Larger(m, n) == IF m > n THEN m ELSE n

(* The text of the lines, joined with line ends; and its first n           *)
(* characters, as lines again.                                             *)
Chars(lines) == IF lines = <<>> THEN 0 ELSE FoldLeft(LAMBDA sum, l : sum + l + 1, -1, lines)
FirstChars(lines, n) ==
  LET start(i) == IF i = 1 THEN 0 ELSE Chars(SubSeq(lines, 1, i - 1)) + 1
      kept == {i \in DOMAIN lines : start(i) <= n}
  IN [i \in 1..Cardinality(kept) |-> Smaller(lines[i], n - start(i))]

Whole(lines) == [lines |-> lines, truncated |-> FALSE]
Cut(lines) == [lines |-> lines, truncated |-> TRUE]   \* a note follows that says so

(* The number of lines comes first: an output that has too many is not     *)
(* cut by its characters.                                                  *)
truncateStatic(lines) ==
  IF Len(lines) > MAX_OUTPUT_LINES THEN Cut(FirstOf(lines, MAX_OUTPUT_LINES))
  ELSE IF Chars(lines) > MAX_OUTPUT_CHARS THEN Cut(FirstChars(lines, MAX_OUTPUT_CHARS))
  ELSE Whole(lines)

PRESERVE_HEADER_LINES == 3

truncateDynamic(lines, maxChars) ==
  LET header == FirstOf(lines, PRESERVE_HEADER_LINES)
      body == SubSeq(lines, PRESERVE_HEADER_LINES + 1, Len(lines))
      budget == maxChars - Chars(header) - NoteChars
  IN IF Chars(lines) <= maxChars THEN Whole(lines)
     ELSE IF budget <= 0 THEN Cut(header)
     ELSE IF Chars(body) <= budget THEN Whole(lines)
     ELSE Cut(header \o FirstChars(body, budget))

(* The messages of a session are [assistant, tokens], as far as they could *)
(* be read.  All answers are counted, though each has read the ones before.*)
Answers(messages) == SelectSeq(messages, LAMBDA m : m.assistant)
getContextWindowUsage(messages, contextLimit) ==
  LET used == FoldLeft(LAMBDA sum, m : sum + m.tokens, 0, Answers(messages))
  IN IF messages = <<>> THEN <<>>
     ELSE <<[usedTokens |-> used, remainingTokens |-> Larger(0, contextLimit - used)]>>

(* Half of what remains, at four characters a token.                       *)
calculateDynamicLimit(usage) ==
  Larger(MinChars, Smaller(2 * usage.remainingTokens, 4 * DEFAULT_MAX_OUTPUT_TOKENS))

(* The reminders that follow an output; the warning replaces it.           *)
Reminders(input, output) ==
  IF input.tool = "edit" THEN IF output.editError THEN <<"EDIT_ERROR_REMINDER">> ELSE <<>>
  ELSE IF input.tool = "task"
       THEN (IF output.blank THEN <<"EMPTY_TASK_WARNING">> ELSE <<>>)
            \o (IF input.background THEN <<"ANTI_POLLING_REMINDER">> ELSE <<>>)
  ELSE <<>>

(* `truncatable' stands for the twelve names of TRUNCATABLE_TOOLS, of      *)
(* which edit and task are none.                                           *)
handleToolOutputSafetyDynamic(input, output, messages, contextLimit) ==
  LET usage == getContextWindowUsage(messages, contextLimit)
      cut == IF input.tool # "truncatable" THEN Whole(output.lines)
             ELSE IF usage = <<>> THEN truncateStatic(output.lines)
             ELSE truncateDynamic(output.lines, calculateDynamicLimit(usage[1]))
  IN [lines |-> IF input.tool = "task" /\ output.blank THEN <<>> ELSE cut.lines,
      truncated |-> cut.truncated, reminders |-> Reminders(input, output)]
-----------------------------------------------------------------------------
(* The last answer alone tells how full the window is; ratios are percents.*)
Clamped(ratio) == Larger(10, Smaller(98, ratio))
IsFull(messages, contextLimit, thresholdRatio) ==
  LET answers == Answers(messages)
      total == Last(answers).tokens
  IN answers # <<>> /\ total >= MIN_TOKENS_TO_CHECK /\ 100 * total >= Clamped(thresholdRatio) * contextLimit

(* The summaries of one session, whose calls are interleaved at their      *)
(* awaits.  A state is a record of                                         *)
(*   busy     compactionInProgress                                         *)
(*   last     lastCompactionAt, 0 if there is none                         *)
(*   at       where each call waits                                        *)
(*   now      the time, up to the bound Clock                              *)
(* and, for the properties, `dirty': the session was marked since a        *)
(* summary began; `missed': that was while it was being made; `done': when *)
(* the last summary was made; `marked': the session was marked since.      *)
InitialCompaction ==
  [busy |-> FALSE, last |-> 0, at |-> [c \in Callers |-> "idle"], now |-> 1,
   dirty |-> FALSE, missed |-> FALSE, done |-> 0, marked |-> FALSE]

Cooling(m) == m.last # 0 /\ m.now - m.last < COMPACTION_COOLDOWN_MS
Summarizing(m) == \E c \in Callers : m.at[c] = "summarizes"
Begin(m, c) == [m EXCEPT !.busy = TRUE, !.at[c] = "summarizes", !.dirty = FALSE, !.missed = FALSE]
End(m, c) == [m EXCEPT !.busy = FALSE, !.at[c] = "idle"]

(* After each tool call.  The messages are read only if no summary is      *)
(* under way and the last one is old enough.                               *)
checkPreemptiveCompaction(m, c) ==
  CASE m.at[c] = "idle" -> IF m.busy \/ Cooling(m) THEN {} ELSE {[m EXCEPT !.busy = TRUE, !.at[c] = "reads"]}
    [] m.at[c] = "reads" -> {End(m, c), Begin(m, c)}   \* not full or not read, or IsFull
    [] OTHER -> {}

runManualCompaction(m, c) == IF m.at[c] = "idle" /\ ~m.busy THEN {Begin(m, c)} ELSE {}

(* The summary is made, or fails.                                          *)
Summarized(m, c) ==
  IF m.at[c] # "summarizes" THEN {}
  ELSE {End(m, c), [End(m, c) EXCEPT !.last = m.now, !.done = m.now, !.marked = FALSE]}

markCompactionStateDirty(m) ==
  [m EXCEPT !.last = 0, !.dirty = TRUE, !.missed = @ \/ Summarizing(m), !.marked = TRUE]

CompactionSteps(m) ==
  UNION {checkPreemptiveCompaction(m, c) \cup runManualCompaction(m, c) \cup Summarized(m, c) : c \in Callers}
  \cup {markCompactionStateDirty(m)}
  \cup (IF m.now < Clock THEN {[m EXCEPT !.now = @ + 1]} ELSE {})

(* The states within n steps.                                              *)
CompactionsWithin(n) ==
  LET reached[i \in 0..n] ==
        IF i = 0 THEN {InitialCompaction}
        ELSE LET before == reached[i - 1] IN before \cup UNION {CompactionSteps(m) : m \in before}
  IN reached[n]
-----------------------------------------------------------------------------
(* The quiet hours are one stretch of the day, round midnight if need be,  *)
(* whatever the two clocks are.                                            *)
QuietHoursAreOneStretch(window, minute) ==
  isInQuietHours(minute, window) <=> (minute - window.start) % Day < (window.end - window.start) % Day

(* All that is said of the route agrees: the title on the desktop and the  *)
(* message say that a notice was delegated exactly when the other does,    *)
(* and then its key has the route as well.                                 *)
RouteIsToldAlike(notice) ==
  /\ notice.desktopTitle # notice.title <=> notice.route # <<>>
  /\ notice.desktopRoute # <<>> <=> notice.route # <<>>
  /\ notice.route # <<>> => Len(notice.key) >= 4

(* Notices with one key are of one session and ask the same: a question is *)
(* not kept from the user because another one was told.                    *)
KeysTellApart(input, other) ==
  LET n == getInputNeededNotification(input)
      o == getInputNeededNotification(other)
  IN n.key = o.key =>
       /\ input.sessionID = other.sessionID
       /\ n.extra.source = o.extra.source
       /\ Trim(input.callID) = Trim(other.callID)
       /\ Trim(input.callID) = "" /\ Trim(input.questionText) # "" =>
            Fingerprint(Trim(input.questionText)) = Fingerprint(Trim(other.questionText))
       /\ buildRoutingDedupeKey(input.route) = buildRoutingDedupeKey(other.route)

(* What a sequence of notices [notice, now, minute] has told, by its index.*)
Told(calls, options) ==
  LET Next(state, i) ==
        LET d == dispatch(state.sent, calls[i].notice, options, calls[i].now, calls[i].minute)
        IN [sent |-> d.sent, told |-> IF d.told = <<>> THEN state.told ELSE state.told \cup {i}]
  IN FoldLeftDomain(Next, [sent |-> {}, told |-> {}], calls).told

(* As time goes by, a notice is told exactly when somebody can be told, it *)
(* is no quiet hour, and none with its key was told within the time that   *)
(* one had to live: what quiet hours kept back does not count.             *)
ToldOncePerTime(calls, options) ==
  LET told == Told(calls, options)
      heard == options.log \/ options.toast \/ (options.desktop /\ options.notifier)
  IN \A i \in DOMAIN calls :
       i \in told <=> /\ options.enabled /\ heard /\ ~Quiet(options, calls[i].minute)
                     /\ \A j \in told : j < i /\ calls[j].notice.key = calls[i].notice.key =>
                                         calls[i].now - calls[j].now > calls[j].notice.ttl

(* Strictly, the log learns the session and the call of a notice; what the *)
(* screen shows says the route in either mode ("strict privacy redacts     *)
(* delegated routing breadcrumbs from log messages", notification-channels *)
(* .test.ts:196).                                                          *)
StrictLogIsTerse(notice, options) ==
  LET told == dispatch({}, notice, [options EXCEPT !.privacy = "strict"], 0, 0).told
      open == dispatch({}, notice, [options EXCEPT !.privacy = "balanced"], 0, 0).told
  IN /\ DOMAIN told = DOMAIN open
     /\ \A i \in DOMAIN told :
          IF told[i].on = "log" THEN told[i].route = <<>> /\ DOMAIN told[i].extra = {"sessionID", "callID"}
          ELSE told[i] = open[i]
-----------------------------------------------------------------------------
(* What is kept of an output is its front, and it is noted exactly when    *)
(* something is left out.  With the window in view the first three lines   *)
(* stay, so an output that has no others is noted as cut and kept whole,   *)
(* however long it is.                                                     *)
CutsAreNoted(lines, maxChars) ==
  LET IsFront(r) == \E n \in 0..Chars(lines) : r.lines = FirstChars(lines, n)
      static == truncateStatic(lines)
      dynamic == truncateDynamic(lines, maxChars)
  IN /\ IsFront(static) /\ (static.truncated <=> static.lines # lines)
     /\ IsFront(dynamic) /\ (dynamic.lines # lines => dynamic.truncated)
     /\ IsPrefix(FirstOf(lines, PRESERVE_HEADER_LINES), dynamic.lines)
     /\ dynamic.truncated /\ dynamic.lines = lines =>
          Len(lines) <= PRESERVE_HEADER_LINES /\ Chars(lines) > maxChars

(* What is kept fits.  An output that has too many lines may still have    *)
(* too many characters, and one whose first lines are too long keeps them. *)
CutsFit(lines, maxChars) ==
  LET static == truncateStatic(lines).lines
      dynamic == truncateDynamic(lines, maxChars).lines
      header == Chars(FirstOf(lines, PRESERVE_HEADER_LINES))
  IN /\ Len(static) <= MAX_OUTPUT_LINES
     /\ Len(lines) <= MAX_OUTPUT_LINES => Chars(static) <= MAX_OUTPUT_CHARS
     /\ Chars(dynamic) <= maxChars \/ (dynamic = FirstOf(lines, PRESERVE_HEADER_LINES) /\ header + NoteChars >= maxChars)

(* The two hooks disagree on how full a window is: to the one that cuts    *)
(* outputs it only ever gets fuller, to the other the last answer counts.  *)
(* When a summary is due, outputs have at most half of the room that is    *)
(* left above the threshold.                                               *)
WindowsOnlyFill(messages, contextLimit, ratio) ==
  LET n == Len(messages)
      limit(k) == calculateDynamicLimit(getContextWindowUsage(SubSeq(messages, 1, k), contextLimit)[1])
  IN n > 0 =>
       /\ \A k \in 1..(n - 1) : limit(k + 1) <= limit(k)
       /\ IsFull(messages, contextLimit, ratio) =>
            100 * limit(n) <= Larger(100 * MinChars, 2 * (100 - Clamped(ratio)) * contextLimit)

(* Only an output that may be long is cut, and only a task that said       *)
(* nothing loses its own; every other output is there, and whatever is     *)
(* noted stands after it.                                                  *)
OthersAreWhole(input, output, messages, contextLimit) ==
  LET r == handleToolOutputSafetyDynamic(input, output, messages, contextLimit)
  IN /\ r.lines # output.lines => r.truncated \/ r.reminders # <<>>
     /\ r.truncated => input.tool = "truncatable" /\ r.reminders = <<>>
     /\ "ANTI_POLLING_REMINDER" \in ToSet(r.reminders) => r.reminders[Len(r.reminders)] = "ANTI_POLLING_REMINDER"
-----------------------------------------------------------------------------
(* One summary of a session is made at a time, and the flag is not left    *)
(* behind.                                                                 *)
OneSummaryAtATime(m) ==
  /\ Cardinality({c \in Callers : m.at[c] # "idle"}) <= 1
  /\ m.busy <=> \E c \in Callers : m.at[c] # "idle"

(* A session that was marked is looked at again at the next call, unless   *)
(* it was marked while a summary was being made: that mark is overwritten. *)
MarksAreHeard(m) == m.dirty /\ Cooling(m) => m.missed

(* No check follows a summary within the cooldown unless there was a mark. *)
ChecksKeepTheirDistance(m) ==
  \A n \in CompactionSteps(m), c \in Callers :
    m.at[c] = "idle" /\ n.at[c] = "reads" =>
      m.done = 0 \/ m.marked \/ m.now - m.done >= COMPACTION_COOLDOWN_MS
=============================================================================
