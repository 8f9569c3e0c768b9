----------------------------- MODULE JobEvents -----------------------------
(***************************************************************************)
(* How a browser learns that its recommendation job is decided              *)
(* (recommendations/job_events.py and the WebSocket of                      *)
(* routers/recommendation_jobs.py).  Every commit to a job notifies a       *)
(* PostgreSQL channel; the API process listens on it and passes a signal to *)
(* the sockets of the job's owner; a browser that receives one reads the    *)
(* job again.  Signals get lost with the listener's session, a socket or    *)
(* the process, and nothing but reading again makes up for it.              *)
(*                                                                         *)
(* The tabs are those of one user.  A connection is <<tab, number>>.  The   *)
(* jobs are those of different artists: rows go through their statuses as   *)
(* module RecJobs says.                                                     *)
(***************************************************************************)
EXTENDS Naturals, Sequences

CONSTANTS
    Tabs,        \* browser tabs of the user
    MaxJobs,     \* bound: jobs of the user
    MaxRequests, \* bound: requests made in the tabs
    MaxFaults    \* bound: lost sessions, sockets and processes, failed reads

ASSUME JobEventsAssumption == {MaxJobs, MaxRequests, MaxFaults} \subseteq Nat

Jobs == 1..MaxJobs
Resync == 0
Terminal == {"decided"} \* completed or failed
Statuses == {"queued", "running"} \cup Terminal
Connections == Tabs \X (1..MaxRequests + MaxFaults + 1)

VARIABLES
    status,   \* recommendation_jobs.status, "none" before the row exists
    channel,  \* notifications the listener's session has not delivered
    listener, \* "down", "listening" before it asked for a resync, "up"
    sending,  \* the signal being sent, the connections still to be served and
              \*   those that failed
    hub,      \* the registered connections of the user
    live,     \* connections that are neither closed nor lost
    conn,     \* the tab's connection, 0 if it has none
    sock,     \* the tab's view of it: "none", "opening", "open"
    wire,     \* signals on their way to the tab on its connection
    watched,  \* the job the tab waits for, 0 if none
    request,  \* number of the tab's last request
    shown,    \* what the tab shows: job, request and outcome
    reads,    \* reads of a job by the tab that are under way
    requests, \* requests so far
    faults    \* faults so far

tabVars == <<conn, sock, wire, watched, request, shown, reads>>
apiVars == <<channel, listener, sending, hub>>
vars == <<status, apiVars, live, tabVars, requests, faults>>

Idle == [msg |-> Resync, to |-> {}, failed |-> {}]
Blank == [job |-> 0, request |-> 0, outcome |-> "loading"]

Init ==
    /\ status = [j \in Jobs |-> "none"]
    /\ channel = <<>> /\ listener = "down" /\ sending = Idle
    /\ hub = {} /\ live = {}
    /\ conn = [t \in Tabs |-> 0] /\ sock = [t \in Tabs |-> "none"]
    /\ wire = [t \in Tabs |-> <<>>]
    /\ watched = [t \in Tabs |-> 0] /\ request = [t \in Tabs |-> 0]
    /\ shown = [t \in Tabs |-> Blank] /\ reads = [t \in Tabs |-> {}]
    /\ requests = 0 /\ faults = 0

Fault == faults < MaxFaults /\ faults' = faults + 1

-----------------------------------------------------------------------------
(* The jobs.  A commit notifies whoever listens.                             *)

Commit(j, s) ==
    /\ status' = [status EXCEPT ![j] = s]
    /\ channel' = IF listener = "down" THEN channel ELSE Append(channel, j)
    /\ UNCHANGED <<listener, sending, hub, live>>

Claimed(j) ==
    /\ status[j] = "queued" /\ Commit(j, "running")
    /\ UNCHANGED <<tabVars, requests, faults>>

Decided(j) ==
    /\ status[j] = "running" /\ \E s \in Terminal : Commit(j, s)
    /\ UNCHANGED <<tabVars, requests, faults>>

(* The refresh of a biography fails the jobs of its artist, also those that  *)
(* nobody has claimed.                                                       *)
Invalidated(j) ==
    /\ status[j] = "queued" /\ \E s \in Terminal : Commit(j, s)
    /\ UNCHANGED <<tabVars, requests, faults>>

Requeued(j) ==
    /\ status[j] = "running" /\ Commit(j, "queued") /\ Fault
    /\ UNCHANGED <<tabVars, requests>>

-----------------------------------------------------------------------------
(* The listener of the API process: LISTEN, then a resync, then one          *)
(* notification after the other, each sent to the sockets registered then.   *)

Quiet == sending = Idle
Send(m) == sending' = IF hub = {} THEN Idle ELSE [msg |-> m, to |-> hub, failed |-> {}]

\* Mutant: the resync is sent before the session listens.
ListenLate ==
    /\ Quiet
    /\ \/ listener = "down" /\ listener' = "listening" /\ Send(Resync)
       \/ listener = "listening" /\ listener' = "up" /\ UNCHANGED sending
    /\ channel' = <<>>
    /\ UNCHANGED <<status, hub, live, tabVars, requests, faults>>

Listen ==
    /\ Quiet
    /\ \/ listener = "down" /\ listener' = "listening" /\ channel' = <<>>
          /\ UNCHANGED sending
       \/ listener = "listening" /\ listener' = "up" /\ Send(Resync)
          /\ UNCHANGED channel
    /\ UNCHANGED <<status, hub, live, tabVars, requests, faults>>

Notified ==
    /\ listener = "up" /\ Quiet /\ channel # <<>>
    /\ Send(Head(channel)) /\ channel' = Tail(channel)
    /\ UNCHANGED <<status, listener, hub, live, tabVars, requests, faults>>

Remove(c) == {c}

(* A send over a lost connection fails, or goes unnoticed.  Those that failed *)
(* are removed when the last one is served.                                  *)
SendOne ==
    \E c \in sending.to, fails \in {TRUE, FALSE} :
        LET to == sending.to \ {c}
            failed == IF fails THEN sending.failed \cup {c} ELSE sending.failed
        IN  /\ fails => c \notin live
            /\ wire' = IF c \in live THEN [wire EXCEPT ![c[1]] = Append(@, sending.msg)]
                       ELSE wire
            /\ \/ /\ to # {} /\ sending' = [sending EXCEPT !.to = to, !.failed = failed]
                  /\ UNCHANGED hub
               \/ /\ to = {} /\ sending' = Idle
                  /\ hub' = hub \ UNION {Remove(f) : f \in failed}
            /\ UNCHANGED <<status, channel, listener, live, conn, sock, watched,
                           request, shown, reads, requests, faults>>

(* The endpoint notices that its socket is gone. *)
Disconnected(c) ==
    /\ c \in hub \ live /\ hub' = hub \ Remove(c)
    /\ UNCHANGED <<status, channel, listener, sending, live, tabVars, requests, faults>>

ListenerFails ==
    /\ listener # "down" /\ Quiet /\ Fault
    /\ listener' = "down" /\ channel' = <<>>
    /\ UNCHANGED <<status, sending, hub, live, tabVars, requests>>

Restart ==
    /\ Fault
    /\ listener' = "down" /\ channel' = <<>> /\ sending' = Idle /\ hub' = {}
    /\ live' = {}
    /\ UNCHANGED <<status, tabVars, requests>>

-----------------------------------------------------------------------------
(* A tab.  While it waits for a job it keeps a socket, and reads the job     *)
(* when it asked for it, when a socket opens and at every signal.            *)

Last(t) == <<t, conn[t]>>
Reading(t) == [job |-> watched[t], request |-> request[t], got |-> "none"]
Read(t) == reads' = [reads EXCEPT ![t] = IF watched[t] = 0 THEN @ ELSE @ \cup {Reading(t)}]

(* A request creates a job, or is answered with one that is active.  It counts *)
(* from that answer on.                                                       *)
Ask(t) ==
    /\ requests < MaxRequests /\ requests' = requests + 1
    /\ \E j \in Jobs :
          /\ \/ status[j] \in {"queued", "running"} /\ UNCHANGED <<status, apiVars, live>>
             \/ /\ status[j] = "none" /\ \A i \in Jobs : i < j => status[i] # "none"
                /\ Commit(j, "queued")
          /\ watched' = [watched EXCEPT ![t] = j]
          /\ request' = [request EXCEPT ![t] = @ + 1]
          /\ shown' = [shown EXCEPT ![t] = [Blank EXCEPT !.job = j, !.request = request'[t]]]
          /\ reads' = [reads EXCEPT ![t] =
                @ \cup {[job |-> j, request |-> request'[t], got |-> "none"]}]
    /\ UNCHANGED <<conn, sock, wire, faults>>

(* A new connection is none of those the server still knows of.              *)
New(t) ==
    LET free == {n \in 1..MaxRequests + MaxFaults + 1 :
                    <<t, n>> \notin hub \cup sending.to \cup sending.failed}
    IN  {n \in free : \A i \in free : n <= i}

(* The endpoint accepts a socket and registers it, without a pause between.  *)
Connect(t) ==
    /\ watched[t] # 0 /\ sock[t] = "none"
    /\ \E n \in New(t) :
          /\ conn' = [conn EXCEPT ![t] = n]
          /\ hub' = hub \cup {<<t, n>>} /\ live' = live \cup {<<t, n>>}
    /\ sock' = [sock EXCEPT ![t] = "opening"]
    /\ UNCHANGED <<status, channel, listener, sending, wire, watched, request,
                   shown, reads, requests, faults>>

\* Mutant: a socket that opens is taken as no news.
OpenedSilently(t) ==
    /\ sock[t] = "opening" /\ Last(t) \in live
    /\ sock' = [sock EXCEPT ![t] = "open"]
    /\ UNCHANGED <<status, apiVars, live, conn, wire, watched, request, shown, reads,
                   requests, faults>>

Opened(t) ==
    /\ sock[t] = "opening" /\ Last(t) \in live
    /\ sock' = [sock EXCEPT ![t] = "open"] /\ Read(t)
    /\ UNCHANGED <<status, apiVars, live, conn, wire, watched, request, shown, requests,
                   faults>>

Signalled(t) ==
    /\ sock[t] = "open" /\ wire[t] # <<>>
    /\ wire' = [wire EXCEPT ![t] = Tail(@)]
    /\ IF Head(wire[t]) \in {Resync, watched[t]} THEN Read(t) ELSE UNCHANGED reads
    /\ UNCHANGED <<status, apiVars, live, conn, sock, watched, request, shown, requests,
                   faults>>

NoSocket(t) ==
    /\ sock' = [sock EXCEPT ![t] = "none"] /\ conn' = [conn EXCEPT ![t] = 0]
    /\ wire' = [wire EXCEPT ![t] = <<>>] /\ live' = live \ {Last(t)}

(* The browser notices that its socket is gone. *)
Closed(t) ==
    /\ sock[t] # "none" /\ Last(t) \notin live /\ NoSocket(t)
    /\ UNCHANGED <<status, apiVars, watched, request, shown, reads, requests, faults>>

(* Other answers than a verdict change nothing that is modelled.             *)
Answered(t) ==
    /\ \E r \in reads[t] :
          /\ r.got = "none"
          /\ reads' = [reads EXCEPT ![t] =
                (@ \ {r}) \cup IF status[r.job] \in Terminal
                               THEN {[r EXCEPT !.got = status[r.job]]} ELSE {}]
    /\ UNCHANGED <<status, apiVars, live, conn, sock, wire, watched, request, shown,
                   requests, faults>>

\* Mutant: an answer to an earlier request is taken for the current one.
IsAnyAnswer(t, r) == watched[t] # 0
IsCurrent(t, r) == watched[t] = r.job /\ request[t] = r.request

(* The waiting ends, and with it the socket. *)
Show(t, outcome) ==
    /\ watched' = [watched EXCEPT ![t] = 0] /\ NoSocket(t)
    /\ shown' = [shown EXCEPT ![t] = outcome]

Applied(t) ==
    \E r \in reads[t] :
        /\ r.got # "none" /\ reads' = [reads EXCEPT ![t] = @ \ {r}]
        /\ \/ IsCurrent(t, r)
              /\ Show(t, [job |-> r.job, request |-> r.request, outcome |-> r.got])
           \/ ~IsCurrent(t, r) /\ UNCHANGED <<watched, shown, live, conn, sock, wire>>
        /\ UNCHANGED <<status, apiVars, request, requests, faults>>

(* The tab gives up a job it cannot read. *)
ReadFails(t) ==
    /\ Fault
    /\ \E r \in reads[t] :
          /\ reads' = [reads EXCEPT ![t] = @ \ {r}]
          /\ \/ watched[t] = r.job /\ Show(t, [shown[t] EXCEPT !.outcome = "error"])
             \/ watched[t] # r.job /\ UNCHANGED <<watched, shown, live, conn, sock, wire>>
    /\ UNCHANGED <<status, apiVars, request, requests>>

SocketBreaks(t) ==
    /\ Last(t) \in live /\ Fault
    /\ live' = live \ {Last(t)}
    /\ UNCHANGED <<status, apiVars, tabVars, requests>>

-----------------------------------------------------------------------------
Api == Listen \/ Notified \/ SendOne
Tab(t) == Connect(t) \/ Opened(t) \/ Signalled(t) \/ Closed(t) \/ Answered(t) \/ Applied(t)

Next ==
    \/ \E j \in Jobs : Claimed(j) \/ Decided(j) \/ Invalidated(j) \/ Requeued(j)
    \/ Api \/ (\E c \in Connections : Disconnected(c)) \/ ListenerFails \/ Restart
    \/ \E t \in Tabs : Ask(t) \/ Tab(t) \/ ReadFails(t) \/ SocketBreaks(t)

(* The listener reconnects for ever, a browser notices a lost socket and     *)
(* connects again, and its reads are answered.  Whether jobs are decided is  *)
(* up to the workers.                                                        *)
Fairness == WF_vars(Api) /\ \A t \in Tabs : WF_vars(Tab(t))

Spec == Init /\ [][Next]_vars /\ Fairness

-----------------------------------------------------------------------------
(* Every variable has its type; what is registered or being served is a      *)
(* connection that was made, and no listener that is down has notifications. *)
TypeOK ==
    /\ status \in [Jobs -> Statuses \cup {"none"}]
    /\ channel \in Seq(Jobs) /\ listener \in {"down", "listening", "up"}
    /\ listener = "down" => channel = <<>>
    /\ sending.msg \in Jobs \cup {Resync}
    /\ sending.to = {} => sending = Idle
    /\ hub \cup sending.to \cup sending.failed \subseteq Connections
    /\ live \subseteq {<<t, conn[t]>> : t \in Tabs}
    /\ sock \in [Tabs -> {"none", "opening", "open"}]
    /\ watched \in [Tabs -> Jobs \cup {0}] /\ request \in [Tabs -> 0..MaxRequests]
    /\ \A t \in Tabs : /\ wire[t] \in Seq(Jobs \cup {Resync})
                       /\ sock[t] = "none" => wire[t] = <<>>
                       /\ \A r \in reads[t] : r.got \in Terminal \cup {"none"}
    /\ requests \in 0..MaxRequests /\ faults \in 0..MaxFaults

(* A tab that waits for a job that is decided is told: an answer that says   *)
(* so, or a reason to read it again, is under way somewhere between the      *)
(* database and the tab, whatever was lost in between.                       *)
SignalIsUnderWay ==
    \A t \in Tabs :
        watched[t] # 0 /\ status[watched[t]] \in Terminal =>
            \/ \E r \in reads[t] :
                  IsCurrent(t, r)
            \/ sock[t] # "open" \/ Last(t) \notin live
            \/ \E i \in DOMAIN wire[t] : wire[t][i] \in {Resync, watched[t]}
            \/ Last(t) \in sending.to /\ sending.msg \in {Resync, watched[t]}
            \/ \E i \in DOMAIN channel : channel[i] = watched[t]
            \/ listener # "up"

(* What a tab shows answers the last request made in it, however the answers *)
(* to its reads overtake each other (RecommendationPanel.tsx).               *)
ShownIsLatest ==
    \A t \in Tabs : shown[t].request = request[t] /\ watched[t] \in {0, shown[t].job}

(* What the user sees, as if the tab looked at the jobs themselves.          *)
Screen == INSTANCE Panel WITH
    decided <- {j \in Jobs : status[j] \in Terminal}, asked <- request, waiting <- watched

(* However signals and answers are lost, repeated or overtaken, a tab shows  *)
(* a verdict only of the job it asked for last, as the answer to that        *)
(* request, when the job is decided, and once.                               *)
ImplementsPanel == Screen!Spec

(* A tab that waits for a job that is decided shows the verdict in the end,  *)
(* though sockets, the listener's session or the process are lost; only a    *)
(* read that fails, or another request, ends the waiting otherwise.          *)
VerdictIsShown ==
    \A t \in Tabs, j \in Jobs :
        (watched[t] = j /\ status[j] \in Terminal)
            ~> \/ shown[t].job = j /\ shown[t].outcome \in {status[j], "error"}
               \/ shown[t].job # j
=============================================================================
