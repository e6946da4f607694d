----------------------------- MODULE CdpConnection -----------------------------
(* src/browser/raw-cdp-connection.ts and its use by                                 *)
(* installManagedServiceWorkerIdentity of src/browser/chromium-launcher.ts: a        *)
(* connection to the browser's debugging port that gives every service worker its    *)
(* identity before it runs.  New workers wait for the debugger, so each one must be   *)
(* let go whatever becomes of the commands sent to it.                               *)
EXTENDS Naturals, FiniteSets

CONSTANTS Workers, MaxTries, MaxFailures

VARIABLES
    phase,      \* where the installation stands
    target,     \* the worker it attaches to
    tries,
    closed,     \* RawCdpConnection.closed
    job,        \* what the event handler does for a worker
    waiting,    \* who waits for the answer to a command
    wire,       \* the commands whose answer is still to come
    configured, \* configuredTargets
    worker,     \* the worker in the browser
    held,       \* history: workers that started paused
    named,      \* history: workers whose identity was tried to be set
    stuck,      \* history: workers whose release failed
    failures

cdpVars == <<phase, target, tries, closed, job, waiting, wire, configured, worker, held, named,
             stuck, failures>>

Install == "install"
Owners == Workers \union {Install}
NoTarget == "none"

CdpInit ==
    /\ phase = "endpoint" /\ target = NoTarget /\ tries = 0 /\ closed = FALSE
    /\ job = [w \in Workers |-> "none"] /\ waiting = {} /\ wire = {}
    /\ configured = {} /\ worker \in [Workers -> {"absent", "running"}]
    /\ held = {} /\ named = {} /\ stuck = {} /\ failures = 0

-----------------------------------------------------------------------------
\* readEndpoint polls the port file until its deadline.
EndpointMissing ==
    /\ phase = "endpoint" /\ tries < MaxTries
    /\ tries' = tries + 1
    /\ UNCHANGED <<phase, target, closed, job, waiting, wire, configured, worker, held, named, stuck,
                   failures>>

EndpointRead ==
    /\ phase = "endpoint" /\ phase' = "handshake"
    /\ UNCHANGED <<target, tries, closed, job, waiting, wire, configured, worker, held, named, stuck,
                   failures>>

\* The port never appears, or the handshake fails or takes too long: no connection.
ConnectFails ==
    /\ (phase = "endpoint" /\ tries = MaxTries) \/ phase = "handshake"
    /\ phase' = "failed" /\ closed' = TRUE
    /\ UNCHANGED <<target, tries, job, waiting, wire, configured, worker, held, named, stuck, failures>>

Connected ==
    /\ phase = "handshake" /\ phase' = "autoattach"
    /\ UNCHANGED <<target, tries, closed, job, waiting, wire, configured, worker, held, named, stuck,
                   failures>>

-----------------------------------------------------------------------------
Steps == {"autoattach", "targets", "attach", "network", "emulation", "evaluate", "release"}
Stage(o) == IF o = Install THEN phase ELSE job[o]

\* What o sends at this point; no two commands are the same, as no two have one id.
Command(o) == <<o, Stage(o), IF o = Install THEN target ELSE o>>

\* send: a timer and an entry under a new id.
Sends(o) ==
    /\ Stage(o) \in Steps /\ o \notin waiting /\ ~closed
    /\ waiting' = waiting \union {o} /\ wire' = wire \union {Command(o)}
    /\ named' = IF Stage(o) = "evaluate" THEN named \union {IF o = Install THEN target ELSE o} ELSE named
    /\ UNCHANGED <<phase, target, tries, closed, job, configured, worker, held, stuck, failures>>

\* The workers getTargets lists that nobody has taken care of.
Unconfigured == {w \in Workers : worker[w] # "absent" /\ w \notin configured}

NextTarget(done) ==
    LET left == Unconfigured \ done
    IN  IF left = {} THEN phase' = "installed" /\ target' = NoTarget /\ UNCHANGED configured
        ELSE /\ phase' = "attach" /\ target' = CHOOSE w \in left : TRUE
             /\ configured' = configured \union {target'}

\* A command is over.  The overrides and the bootstrap may fail; attaching may not.
InstallGoesOn(ok) ==
    CASE phase = "autoattach" /\ ok -> phase' = "targets" /\ UNCHANGED <<target, configured, closed>>
      [] phase = "targets" /\ ok -> NextTarget({}) /\ UNCHANGED closed
      [] phase = "attach" /\ ok -> phase' = "network" /\ UNCHANGED <<target, configured, closed>>
      [] phase = "network" -> phase' = "emulation" /\ UNCHANGED <<target, configured, closed>>
      [] phase = "emulation" -> phase' = "evaluate" /\ UNCHANGED <<target, configured, closed>>
      [] phase = "evaluate" -> NextTarget({target}) /\ UNCHANGED closed
      [] OTHER -> phase' = "failed" /\ closed' = TRUE /\ UNCHANGED <<target, configured>>

Mutant_JobGoesOn_NoFinally(w, ok) ==
    job' = [job EXCEPT ![w] =
        CASE job[w] = "network" -> "emulation"
          [] job[w] = "emulation" -> "evaluate"
          [] job[w] = "evaluate" /\ ok -> "release"
          [] OTHER -> "done"]

\* configureTarget of a worker that waits: it is let go in the end, come what may.
JobGoesOn(w, ok) ==
    job' = [job EXCEPT ![w] =
        CASE job[w] = "network" -> "emulation"
          [] job[w] = "emulation" -> "evaluate"
          [] job[w] = "evaluate" -> "release"
          [] OTHER -> "done"]

GoesOn(o, ok) ==
    IF o = Install
    THEN /\ InstallGoesOn(ok)
         /\ waiting' = IF closed' THEN {} ELSE waiting \ {o}
         /\ UNCHANGED <<job, worker, stuck>>
    ELSE /\ JobGoesOn(o, ok)
         /\ waiting' = waiting \ {o}
         /\ worker' = IF job[o] = "release" /\ ok THEN [worker EXCEPT ![o] = "running"] ELSE worker
         /\ stuck' = IF job[o] = "release" /\ ~ok THEN stuck \union {o} ELSE stuck
         /\ UNCHANGED <<phase, target, configured, closed>>

\* handleMessage: the answer of a command that still waits settles it; the one of a
\* command that has timed out is ignored.
Answer(c) ==
    /\ c \in wire /\ ~closed
    /\ wire' = wire \ {c}
    /\ \/ \E o \in waiting : Command(o) = c /\ GoesOn(o, TRUE)
       \/ /\ \A o \in waiting : Command(o) # c
          /\ UNCHANGED <<phase, target, closed, job, waiting, configured, worker, stuck>>
    /\ UNCHANGED <<tries, held, named, failures>>

\* A protocol error, a socket that does not take the command, or the timer.
CommandFails(o) ==
    /\ o \in waiting /\ failures < MaxFailures
    /\ failures' = failures + 1
    /\ GoesOn(o, FALSE)
    /\ UNCHANGED <<tries, wire, held, named>>

\* On a closed connection what waited is rejected, and every further send is.
Rejected(o) ==
    /\ closed /\ Stage(o) \in Steps
    /\ GoesOn(o, FALSE)
    /\ UNCHANGED <<tries, wire, held, named, failures>>

\* The socket or the browser's context closes.
Close ==
    /\ phase \in Steps \union {"installed"} /\ ~closed
    /\ closed' = TRUE /\ waiting' = {}
    /\ UNCHANGED <<phase, target, tries, job, wire, configured, worker, held, named, stuck, failures>>

-----------------------------------------------------------------------------
\* handleAttached: a worker that is known is let go at once, a new one is configured.
handleAttached(w) ==
    IF w \in configured THEN job' = [job EXCEPT ![w] = "release"] /\ UNCHANGED configured
    ELSE job' = [job EXCEPT ![w] = "network"] /\ configured' = configured \union {w}

Listening == phase \in {"targets", "attach", "network", "emulation", "evaluate", "installed"} /\ ~closed

\* A worker starts.  Once autoAttach is set it is paused, and its event arrives
\* before the answer to anything asked later.
WorkerStarts(w) ==
    /\ worker[w] = "absent" /\ ~closed
    /\ \/ /\ Listening
          /\ worker' = [worker EXCEPT ![w] = "paused"] /\ held' = held \union {w}
          /\ handleAttached(w)
       \/ /\ ~Listening
          /\ worker' = [worker EXCEPT ![w] = "running"]
          /\ UNCHANGED <<job, configured, held>>
    /\ UNCHANGED <<phase, target, tries, closed, waiting, wire, named, stuck, failures>>

\* Attaching to a worker that runs raises the event too, for a target that is known.
AttachEvent(w) ==
    /\ phase = "attach" /\ w = target /\ Install \in waiting /\ job[w] = "none"
    /\ handleAttached(w)
    /\ UNCHANGED <<phase, target, tries, closed, waiting, wire, worker, held, named, stuck, failures>>

CdpProgress ==
    \/ EndpointMissing \/ EndpointRead \/ ConnectFails \/ Connected
    \/ \E o \in Owners : Sends(o) \/ CommandFails(o) \/ Rejected(o)
    \/ \E c \in wire : Answer(c)

CdpNext ==
    \/ CdpProgress \/ Close
    \/ \E w \in Workers : WorkerStarts(w) \/ AttachEvent(w)

-----------------------------------------------------------------------------
\* A worker that waited for the debugger runs only with its identity set, or tried;
\* a closed connection leaves no command waiting.
IdentityFirst ==
    /\ \A w \in held : worker[w] = "running" => w \in named
    /\ closed => waiting = {}

\* A worker that waits is let go, unless the connection is closed or the release
\* itself failed.
Waiting(w) == worker[w] = "paused" /\ ~closed /\ w \notin stuck
CdpBusy == (\E w \in Workers : Waiting(w)) \/ \E o \in Owners : Stage(o) \in Steps
=============================================================================
