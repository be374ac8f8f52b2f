------------------------------- MODULE Frontend -------------------------------
(***************************************************************************)
(* The single page of the browser (frontend/src/App.tsx, api/client.ts,    *)
(* components/).                                                           *)
(*                                                                         *)
(* A click starts an asynchronous handler: it changes the screen at once,  *)
(* awaits a call of the API, changes the screen again, and awaits the      *)
(* trace.  Between two awaits the user can click what is not disabled, and *)
(* an answer that arrives late is shown all the same.  A call that breaks  *)
(* tells nothing of what the server did or will still do with it.          *)
(*                                                                         *)
(* The server is what api/assessments.py promises of it: an assessment     *)
(* waits for a decision or is finished, and only the first decision counts.*)
(***************************************************************************)
EXTENDS Naturals, Sequences

CONSTANTS
  MaxClicks    \* bound: how many handlers the user starts

ASSUME ClicksAssumption == MaxClicks \in Nat \ {0}

VARIABLES
  store,       \* server: the status of each assessment; its number is its id
  apps,        \* sampleApps and loadingApps: "loading", "listed", "unavailable"
  screen,      \* assessment: None or what was answered for it
  trace,       \* None, or whose trace it is and how far that assessment was
  running, deciding,
  error,       \* "none", or the call whose failure is shown: "apps", "run", "decide", "trace"
  handler,     \* the handlers started so far
  overlapped,  \* history: a run and a decision were in flight together
  dismissed    \* history: the last error was dismissed

vars == <<store, apps, screen, trace, running, deciding, error, handler, overlapped, dismissed>>
history == <<overlapped, dismissed>>

None == [id |-> 0, status |-> "none"]
Awaits(shown) == shown.status = "awaiting_approval"

Init ==
  /\ store = <<>>
  /\ apps = "loading"
  /\ screen = None /\ trace = None
  /\ running = FALSE /\ deciding = FALSE
  /\ error = "none"
  /\ handler = <<>>
  /\ overlapped = FALSE /\ dismissed = FALSE

ShowError(what) == error' = what /\ dismissed' = FALSE

ListSampleApps ==
  /\ apps = "loading"
  /\ \/ apps' = "listed" /\ UNCHANGED <<error, dismissed>>
     \/ apps' = "unavailable" /\ ShowError("apps")
  /\ UNCHANGED <<store, screen, trace, running, deciding, handler, overlapped>>

Dismiss ==
  /\ error # "none"
  /\ error' = "none" /\ dismissed' = TRUE
  /\ UNCHANGED <<store, apps, screen, trace, running, deciding, handler, overlapped>>

-----------------------------------------------------------------------------
(* The handlers up to their first await. *)

\* A handler holds the assessment its closure saw, what it awaits, whether the server has
\* acted on its first call, and the answer to that.
Started(kind, id) ==
  Append(handler, [kind |-> kind, id |-> id, awaits |-> "answer", call |-> "sent", answer |-> None])

MayClick == Len(handler) < MaxClicks

\* a variant that leaves the trace of the last assessment on the screen
HandleRun_keeps_trace ==
  /\ apps = "listed" /\ ~ running /\ MayClick
  /\ running' = TRUE /\ ShowError("none")
  /\ screen' = None
  /\ handler' = Started("run", 0)
  /\ overlapped' = (overlapped \/ deciding)
  /\ UNCHANGED <<store, apps, trace, deciding>>

HandleRun ==
  /\ apps = "listed" /\ ~ running /\ MayClick
  /\ running' = TRUE /\ ShowError("none")
  /\ screen' = None /\ trace' = None
  /\ handler' = Started("run", 0)
  /\ overlapped' = (overlapped \/ deciding)
  /\ UNCHANGED <<store, apps, deciding>>

\* the buttons of the banner, which is there while the assessment awaits a decision
HandleDecision ==
  /\ Awaits(screen) /\ ~ deciding /\ MayClick
  /\ deciding' = TRUE /\ ShowError("none")
  /\ handler' = Started("decide", screen.id)
  /\ overlapped' = (overlapped \/ running)
  /\ UNCHANGED <<store, apps, screen, trace, running>>

-----------------------------------------------------------------------------
(* The server. *)

Answered(h, id, status) ==
  [handler EXCEPT ![h].call = "served", ![h].answer = [id |-> id, status |-> status]]

\* a run that failed is a row too, but its answer is an error
CreateAssessment(h) ==
  /\ handler[h].kind = "run" /\ handler[h].call = "sent"
  /\ \E status \in {"awaiting_approval", "finished", "failed"} :
       /\ store' = Append(store, status)
       /\ handler' = Answered(h, Len(store) + 1, status)

\* A decision on an assessment that does not wait is refused; a run that fails after
\* the decision leaves the row waiting.
SubmitApproval(h) ==
  /\ handler[h].kind = "decide" /\ handler[h].call = "sent"
  /\ \/ /\ store[handler[h].id] = "awaiting_approval"
        /\ store' = [store EXCEPT ![handler[h].id] = "finished"]
        /\ handler' = Answered(h, handler[h].id, "finished")
     \/ /\ UNCHANGED store
        /\ handler' = Answered(h, handler[h].id, "failed")

\* the server may act on a call whose sender has given up
Serve(h) ==
  /\ CreateAssessment(h) \/ SubmitApproval(h)
  /\ UNCHANGED <<apps, screen, trace, running, deciding, error, history>>

-----------------------------------------------------------------------------
(* The handlers after an await. *)

\* finally: the handler's own flag is cleared
Finally(h) ==
  /\ handler' = [handler EXCEPT ![h].awaits = "nothing"]
  /\ IF handler[h].kind = "run" THEN running' = FALSE /\ UNCHANGED deciding
                                ELSE deciding' = FALSE /\ UNCHANGED running

\* setAssessment, and getTrace is called
Show(h) ==
  /\ handler[h].awaits = "answer" /\ handler[h].call = "served" /\ handler[h].answer.status # "failed"
  /\ screen' = handler[h].answer
  /\ handler' = [handler EXCEPT ![h].awaits = "trace"]
  /\ UNCHANGED <<store, apps, trace, running, deciding, error, history>>

\* a variant that clears its flag only where the call succeeded
Fail_without_finally(h) ==
  /\ handler[h].awaits = "answer"
  /\ ShowError(handler[h].kind)
  /\ handler' = [handler EXCEPT ![h].awaits = "nothing"]
  /\ UNCHANGED <<store, apps, screen, trace, running, deciding, overlapped>>

\* a variant that forgets to report what went wrong
Fail_silently(h) ==
  /\ handler[h].awaits = "answer"
  /\ Finally(h)
  /\ UNCHANGED <<store, apps, screen, trace, error, history>>

\* The answer is an error, or the call broke, whether the server acted on it or not.
Fail(h) ==
  /\ handler[h].awaits = "answer"
  /\ ShowError(handler[h].kind)
  /\ Finally(h)
  /\ UNCHANGED <<store, apps, screen, trace, overlapped>>

\* The events up to some moment since the trace was asked for, at the latest now.
RefreshTrace(h) ==
  /\ handler[h].awaits = "trace"
  /\ LET id == handler[h].answer.id
     IN \E status \in {handler[h].answer.status, store[id]} :
          trace' = [id |-> id, status |-> status]
  /\ Finally(h)
  /\ UNCHANGED <<store, apps, screen, error, history>>

\* the assessment stays on the screen
TraceFails(h) ==
  /\ handler[h].awaits = "trace"
  /\ ShowError("trace")
  /\ Finally(h)
  /\ UNCHANGED <<store, apps, screen, trace, overlapped>>

Resume(h) == Show(h) \/ Fail(h) \/ RefreshTrace(h) \/ TraceFails(h)

Next ==
  \/ ListSampleApps \/ Dismiss \/ HandleRun \/ HandleDecision
  \/ \E h \in 1..Len(handler) : Serve(h) \/ Resume(h)

Spec == Init /\ [][Next]_vars

-----------------------------------------------------------------------------
(* Properties. *)

InFlight(kind) == {h \in 1..Len(handler) : handler[h].kind = kind /\ handler[h].awaits # "nothing"}
Settled == InFlight("run") = {} /\ InFlight("decide") = {}
Unexplained == error = "none" /\ ~ dismissed

\* While no run was in flight together with a decision, the trace is that of the
\* assessment on the screen; and once everything has settled without an error, both are
\* as the server has them.  (Together they may be mixed up: App.tsx awaits twice and
\* shows whatever comes back.)
ScreenIsCurrentUnlessOverlapped ==
  ~ overlapped =>
    /\ trace.id \in {0, screen.id}
    /\ Settled /\ Unexplained /\ screen # None
         => screen = [id |-> screen.id, status |-> store[screen.id]] /\ trace = screen

\* A banner that asks for a decision already taken comes with an error the user has
\* seen, or with a decision on the way: whatever overlapped, and although a call that
\* broke may have been acted on.
StaleBannerIsExplained ==
  Awaits(screen) /\ store[screen.id] # "awaiting_approval"
    => ~ Unexplained \/ InFlight("decide") # {}

\* The flags that disable the form and the banner tell what is in flight, and that is
\* never two runs or two decisions, in whatever order the handlers end.
FlagsTellWhatIsInFlight ==
  /\ running <=> InFlight("run") # {}
  /\ deciding <=> InFlight("decide") # {}
  /\ \A kind \in {"run", "decide"} : \A g, h \in InFlight(kind) : g = h
=============================================================================
