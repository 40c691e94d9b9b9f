------------------------------ MODULE HubSpiV1 ------------------------------
(***************************************************************************)
(* The SPI link of the first hub (pitopd/pthub/pthub_spi.py): changes of   *)
(* the screen are queued by four threads and sent by a fifth, one byte a   *)
(* change, each with all of State.  The answer, which comes at the same    *)
(* time as the byte goes and tells the state before it, is copied to State.*)
(* When that thread has ended, the threads that ask for a change send one  *)
(* themselves, taken to be one at a time.                                  *)
(***************************************************************************)
EXTENDS Integers, Sequences

CONSTANTS
    Levels,     \* the brightnesses of the hub at first and of the clients' requests
    Tries,      \* so often the hub is asked for its state (5)
    Starts,     \* whether the screen may be blanked when the service starts
    Scenario    \* what may fail and the bounds, one record of the set per behaviour

Thread == {"request", "idle", "i2c", "main"}
Full == 10
Level == 0..Full

ASSUME SpiAssumption ==
    /\ Levels \subseteq Level
    /\ Tries \in Nat /\ Tries > 1
    /\ Starts \subseteq BOOLEAN
    /\ Scenario \subseteq
         [failures : SUBSET {"lost", "garbled", "id", "raises"},    \* of transfers
          ask : Nat,           \* requests, idle callbacks and warnings
          lid : Nat,           \* openings and closings of the lid
          fail : Nat]          \* transfers that do not go well

Screen == [level : Level, blanked : BOOLEAN, lidOpen : BOOLEAN]
Blank == <<"blank">>
Unblank == <<"unblank">>
SetTo(n) == <<"level", n>>

VARIABLES
    hub,      \* the hub's screen and lid
    state,    \* State._brightness, _screen_blanked and _lid_closed
    queue,    \* queued_changes
    thread,   \* the SPI thread: "new", "absent", "loop", "ending" or "dead"
    stage,    \* of the exchange: "first", "again", then "rest", "transfer" or "sync"
    by,       \* who communicates: "spi" or another thread
    byte,     \* what is sent
    tries,    \* get_state_ctr
    polling,  \* _run_main_thread
    todo,     \* what each thread has still to ask for
    stopPc,   \* HubManager.stop: "none", "unblank", "join" or "done"
    asked,    \* the change last queued, if no transfer has failed since
    sent,     \* the changes sent last of each kind, if nothing should have undone them
    told,     \* the kinds the hub has told since a change of that kind was sent
    known,    \* the levels the screen has had or was asked to have
    scenario  \* what may fail, and what is left of the bounds

exchange == <<stage, by, byte, tries>>
callers == <<todo, stopPc>>
history == <<asked, sent, told, known>>
vars == <<hub, state, queue, thread, exchange, polling, callers, history, scenario>>

-----------------------------------------------------------------------------
\* A byte: a parity bit and the level; the Pi's then has a parity bit for the two
\* state bits, the hub's, whose first covers all, has the lid there.
Parity == [n \in 0..127 |-> (n + n \div 2 + n \div 4 + n \div 8 + n \div 16 + n \div 32 + n \div 64) % 2]
Bit(b) == IF b THEN 1 ELSE 0
LevelOf(n) == (n \div 8) % 16
LidOpenOf(n) == (n \div 4) % 2 = 1
BlankedOf(n) == (n \div 2) % 2 = 1

\* _parse_state_to_bits; State._shutdown is never set.
\* fault: the parity of the level takes the blanked bit in.
FaultyBits(s) ==
    128 * Parity[2 * s.level + Bit(s.blanked)] + 8 * s.level + 4 * Parity[2 * Bit(s.blanked)] + 2 * Bit(s.blanked)

Bits(s) == 128 * Parity[s.level] + 8 * s.level + 4 * Parity[2 * Bit(s.blanked)] + 2 * Bit(s.blanked)

Fetch == 255

\* The hub takes a byte with both parities right, and tells level 0 when blanked.
Takes(n) ==
    IF n # Fetch /\ n \div 128 = Parity[LevelOf(n)] /\ (n \div 4) % 2 = Parity[n % 4]
    THEN [hub EXCEPT !.level = LevelOf(n), !.blanked = BlankedOf(n)]
    ELSE hub

Report(h) ==
    LET n == 8 * (IF h.blanked THEN 0 ELSE h.level) + 4 * Bit(h.lidOpen) + 2 * Bit(h.blanked)
    IN 128 * Parity[n] + n

\* _determine_byte
IsDeviceId(n) == n \div 128 = 0 /\ LevelOf(n) = 15
IsState(n) == ~IsDeviceId(n) /\ n \div 128 = Parity[n % 128]

\* _process_spi_resp: the level of a blanked screen counts only at first.
FaultySeen(n, first) ==   \* fault: it always counts
    [level |-> IF LevelOf(n) \in Level THEN LevelOf(n) ELSE state.level,
     blanked |-> BlankedOf(n), lidOpen |-> LidOpenOf(n)]

FaultySeenOnce(n, first) ==   \* fault: the level of later answers does not count
    [level |-> IF LevelOf(n) \in Level /\ first THEN LevelOf(n) ELSE state.level,
     blanked |-> BlankedOf(n), lidOpen |-> LidOpenOf(n)]

Seen(n, first) ==
    [level |-> IF LevelOf(n) \in Level /\ (first \/ ~BlankedOf(n) \/ LevelOf(n) # 0)
               THEN LevelOf(n) ELSE state.level,
     blanked |-> BlankedOf(n), lidOpen |-> LidOpenOf(n)]

\* A blanked screen does not tell its brightness.
Tells(n) == IF BlankedOf(n) THEN {"screen"} ELSE {"level", "screen"}

\* App.on_lid_opened, on_lid_closed.
LidCallback(n) ==
    IF state.lidOpen = LidOpenOf(n) THEN <<>> ELSE IF state.lidOpen THEN <<Blank>> ELSE <<Unblank>>

-----------------------------------------------------------------------------
Init ==
    /\ hub \in [level : Levels, blanked : Starts, lidOpen : {TRUE}]
    /\ state = [level |-> Full, blanked |-> FALSE, lidOpen |-> TRUE]
    /\ queue = <<>>
    /\ thread = "new"
    /\ stage = "first" /\ by = "spi" /\ byte = Fetch /\ tries = 0
    /\ polling = FALSE
    /\ todo = [t \in Thread |-> <<>>]
    /\ stopPc = "none"
    /\ asked = {} /\ sent = {} /\ told = {}
    /\ known = {hub.level}
    /\ scenario \in Scenario

Count(what) == scenario[what] > 0 /\ scenario' = [scenario EXCEPT ![what] = @ - 1]

\* A transfer: the byte is taken by the hub unless it is lost; the answer is
\* good, has a bit wrong, or is the device's id.
Outcome(how) ==
    /\ \/ how = "good" /\ UNCHANGED scenario
       \/ how \in scenario.failures \ {"raises"} /\ Count("fail")
    /\ hub' = IF how = "lost" THEN hub ELSE Takes(byte)

Answer(how) ==
    CASE how = "good" -> Report(hub)
      [] how = "id" -> 120
      [] OTHER -> (Report(hub) + 128) % 256

Note(change) == asked' = {change}

Forget == asked' = {} /\ sent' = {}

\* SPIHandler.__init__ and start: the first good answer is not used, nor is one
\* of zeros.
InitialRead ==
    /\ thread = "new"
    /\ \E how \in {"good"} \cup scenario.failures : \E answer \in {Answer(how)} :
        /\ Outcome(how)
        /\ LET valid == IsState(answer) /\ answer # 0 IN
            IF valid /\ stage = "again"
            THEN /\ state' = Seen(answer, TRUE)
                 /\ queue' = <<<<"init">>>>
                 /\ thread' = "loop" /\ polling' = TRUE
                 /\ stage' = "rest" /\ tries' = 0
            ELSE /\ tries' = tries + 1
                 /\ stage' = IF valid THEN "again" ELSE stage
                 /\ thread' = IF tries' = Tries THEN "absent" ELSE "new"
                 /\ UNCHANGED <<state, queue, polling>>
    /\ UNCHANGED <<by, byte, callers, history>>

\* transceive_and_process: a change is taken from the queue and made in State,
\* which is then sent; without one the hub is asked for its state.
FaultyApplied(change) ==   \* fault: a brightness lights a blanked screen
    CASE change[1] = "level" -> [state EXCEPT !.level = change[2], !.blanked = FALSE]
      [] change[1] = "blank" -> [state EXCEPT !.blanked = TRUE]
      [] change[1] = "unblank" -> [state EXCEPT !.blanked = FALSE]
      [] OTHER -> state

Applied(change) ==
    CASE change[1] = "level" -> [state EXCEPT !.level = change[2]]
      [] change[1] = "blank" -> [state EXCEPT !.blanked = TRUE]
      [] change[1] = "unblank" -> [state EXCEPT !.blanked = FALSE]
      [] OTHER -> state

Kind(change) == IF change[1] = "level" THEN "level" ELSE "screen"

Begin(changes, who) ==
    /\ IF changes = <<>>
       THEN byte' = Fetch /\ UNCHANGED <<state, queue, sent, told>>
       ELSE /\ state' = Applied(Head(changes))
            /\ byte' = Bits(state')
            /\ queue' = Tail(changes)
            /\ sent' = {change \in sent : Kind(change) \in told \ {Kind(Head(changes))}}
                           \cup ({Head(changes)} \ {<<"init">>})
            /\ told' = told \ {Kind(Head(changes))}
    /\ stage' = "transfer" /\ by' = who /\ UNCHANGED tries

\* _main_thread_loop, and its end when it is to stop and the queue is empty.
Send ==
    /\ thread = "loop" /\ stage = "rest"
    /\ polling \/ queue # <<>>
    /\ Begin(queue, "spi")
    /\ UNCHANGED <<hub, thread, polling, callers, asked, known, scenario>>

\* fault: the loop ends with changes in the queue.
FaultyEnd ==
    /\ thread = "loop" /\ stage = "rest" /\ ~polling
    /\ thread' = "ending"
    /\ UNCHANGED <<hub, state, queue, exchange, polling, callers, history, scenario>>

End ==
    /\ thread = "loop" /\ stage = "rest" /\ ~polling /\ queue = <<>>
    /\ thread' = "ending"
    /\ UNCHANGED <<hub, state, queue, exchange, polling, callers, history, scenario>>

Die ==
    /\ thread = "ending" /\ stage = "rest"
    /\ thread' = "dead"
    /\ UNCHANGED <<hub, state, queue, exchange, polling, callers, history, scenario>>

\* The answer is copied to State.  The change of a lid seen by another thread
\* than the SPI thread is sent next by that thread.
Exchange ==
    /\ stage = "transfer"
    /\ \E how \in {"good"} \cup scenario.failures : \E answer \in {Answer(how)} :
        /\ Outcome(how)
        /\ IF IsState(answer)
           THEN LET lid == LidCallback(answer) IN
                /\ state' = Seen(answer, FALSE)
                /\ stage' = "sync" /\ tries' = 0 /\ byte' = Fetch
                /\ IF by = "spi" THEN queue' = queue \o lid /\ UNCHANGED todo
                                 ELSE todo' = [todo EXCEPT ![by] = lid \o @] /\ UNCHANGED queue
                /\ IF by = "spi" /\ lid # <<>> THEN Note(lid[1]) ELSE UNCHANGED asked
                /\ told' = IF byte = Fetch THEN told \cup Tells(answer) ELSE told
                /\ UNCHANGED sent
           ELSE /\ stage' = "rest"
                /\ IF how = "id" THEN UNCHANGED <<asked, sent>> ELSE Forget
                /\ UNCHANGED <<state, queue, todo, tries, byte, told>>
    /\ UNCHANGED <<thread, by, polling, stopPc, known>>

\* _get_state_from_hub after a change: up to Tries answers, none of them used.
Sync ==
    /\ stage = "sync"
    /\ \E how \in {"good"} \cup scenario.failures : \E answer \in {Answer(how)} :
        /\ Outcome(how)
        /\ IF IsState(answer) \/ tries + 1 = Tries
           THEN stage' = "rest" /\ UNCHANGED tries
           ELSE tries' = tries + 1 /\ UNCHANGED stage
    /\ UNCHANGED <<state, queue, thread, by, byte, polling, callers, history>>

\* xfer2 raises, which ends the SPI thread, or what another thread is at.
Raise ==
    /\ stage \in {"transfer", "sync"} /\ "raises" \in scenario.failures
    /\ Count("fail")
    /\ stage' = "rest"
    /\ IF by = "spi" THEN thread' = "ending" /\ UNCHANGED todo
                     ELSE todo' = [todo EXCEPT ![by] = <<>>] /\ UNCHANGED thread
    /\ Forget
    /\ UNCHANGED <<hub, state, queue, by, byte, tries, polling, stopPc, told, known>>

-----------------------------------------------------------------------------
\* change_screen_state; the last part of change_brightness_state.
Put(t) ==
    /\ todo[t] # <<>> /\ Head(todo[t])[1] \in {"level", "blank", "unblank"}
    /\ LET change == Head(todo[t]) IN
        /\ \/ /\ thread \in {"loop", "ending"}
              /\ queue' = Append(queue, change)
              /\ UNCHANGED <<state, exchange, sent, told>>
           \/ /\ thread = "dead" /\ stage = "rest"
              /\ Begin(Append(queue, change), t)
        /\ Note(change)
        /\ known' = IF change[1] = "level" THEN known \cup {change[2]} ELSE known
    /\ todo' = [todo EXCEPT ![t] = Tail(@)]
    /\ UNCHANGED <<hub, thread, polling, stopPc, scenario>>

\* The brightness asked for, clipped at the top; increment_ and
\* decrement_brightness start from State.
Clipped(ask) ==
    CASE ask[1] = "set" -> ask[2]
      [] ask[1] = "inc" -> IF state.level < Full THEN state.level + 1 ELSE Full
      [] ask[1] = "dec" -> state.level - 1

\* change_brightness_state: a screen that State has as blanked is unblanked first.
Adjust(t) ==
    /\ todo[t] # <<>> /\ Head(todo[t])[1] \in {"set", "inc", "dec"}
    /\ thread \in {"loop", "ending", "dead"}
    /\ LET value == Clipped(Head(todo[t])) IN
        todo' = [todo EXCEPT ![t] =
            (IF value < 0 THEN <<>> ELSE IF state.blanked THEN <<Unblank, SetTo(value)>> ELSE <<SetTo(value)>>) \o Tail(@)]
    /\ UNCHANGED <<hub, state, queue, thread, exchange, polling, stopPc, history, scenario>>

Ask(t, what) ==
    /\ thread \in {"loop", "ending", "dead"} /\ todo[t] = <<>> /\ stopPc \in {"none", "unblank", "join"}
    /\ Count("ask")
    /\ todo' = [todo EXCEPT ![t] = what]
    /\ UNCHANGED <<hub, state, queue, thread, exchange, polling, stopPc, history>>

\* HubManager unblanks before each change of the brightness.
Request ==
    /\ stopPc = "none"
    /\ \/ \E n \in Levels : Ask("request", <<Unblank, <<"set", n>>>>)
       \/ \E name \in {"inc", "dec"} : Ask("request", <<Unblank, <<name>>>>)
       \/ \E change \in {Blank, Unblank} : Ask("request", <<change>>)

IdleCallback == stopPc = "none" /\ \E change \in {Blank, Unblank} : Ask("idle", <<change>>)

\* A battery warning, in the thread of the I2C battery, which is stopped last.
Warning == Ask("i2c", <<Unblank>>)

MoveLid ==
    /\ Count("lid")
    /\ hub' = [hub EXCEPT !.lidOpen = ~@]
    /\ UNCHANGED <<state, queue, thread, exchange, polling, callers, history>>

\* HubManager.stop, when the request server and the idle monitor have ended.
StopUnblank ==
    /\ stopPc = "none" /\ thread \in {"loop", "ending", "dead"}
    /\ todo["request"] = <<>> /\ todo["idle"] = <<>>
    /\ stopPc' = "unblank"
    /\ todo' = [todo EXCEPT !["main"] = <<Unblank>>]
    /\ UNCHANGED <<hub, state, queue, thread, exchange, polling, history, scenario>>

StopPolling ==
    /\ stopPc = "unblank" /\ todo["main"] = <<>> /\ (thread = "dead" => stage = "rest")
    /\ stopPc' = "join"
    /\ polling' = FALSE
    /\ UNCHANGED <<hub, state, queue, thread, exchange, todo, history, scenario>>

JoinSpi ==
    /\ stopPc = "join" /\ thread = "dead"
    /\ stopPc' = "done"
    /\ UNCHANGED <<hub, state, queue, thread, exchange, polling, todo, history, scenario>>

Spi == InitialRead \/ Send \/ End \/ Die \/ Exchange \/ Sync

Next ==
    \/ Spi \/ Raise
    \/ \E t \in Thread : Put(t) \/ Adjust(t)
    \/ Request \/ IdleCallback \/ Warning \/ MoveLid
    \/ StopUnblank \/ StopPolling \/ JoinSpi

Spec == Init /\ [][Next]_vars

\* The threads are scheduled.
FairSpec ==
    /\ Spec /\ WF_vars(Spi) /\ WF_vars(StopPolling \/ JoinSpi)
    /\ \A t \in Thread : WF_vars(Put(t) \/ Adjust(t))

-----------------------------------------------------------------------------
Still == stage = "rest" /\ \A t \in Thread : todo[t] = <<>>

\* Whether a screen is as a change asks for it.
Does(screen, change) ==
    CASE change[1] = "level" -> screen.level = change[2]
      [] change[1] = "blank" -> screen.blanked
      [] change[1] = "unblank" -> ~screen.blanked

\* With the queue empty, the hub has the change that was queued last, whoever asked
\* for it and whatever the answers have set State back to in between, as long as no
\* transfer has failed since (_update_state_from_pending_state_change,
\* _process_spi_resp).
LastChangeWins == Still /\ queue = <<>> => \A change \in asked : Does(hub, change)

\* The byte that carries a change of the brightness does not undo the blanking sent
\* before, nor that of a blanking the brightness, if the hub has been asked for its
\* state in between: the answer to the first has set State back to what was before
\* it, and all of State goes out with the second (transceive_and_process).
OtherChangeStays == stage = "rest" => \A change \in sent : Does(hub, change)

\* No brightness comes up that the screen has not had and nobody has asked for,
\* however often it is blanked, with a hub that tells none of a blanked screen.
BrightnessIsKept == hub.level \in known

\* As long as the hub is polled, State comes to tell what the screen and the lid
\* do, also after a change that the hub has not taken.
StateCatchesUp ==
    <>[](thread = "loop" /\ polling => /\ state.blanked = hub.blanked /\ state.lidOpen = hub.lidOpen
                                       /\ hub.blanked \/ state.level = hub.level)

Stopped == stopPc \in {"join", "done"} /\ thread = "dead" /\ by = "spi"

\* The SPI thread leaves the screen unblanked, at whatever brightness, unless it has
\* seen the lid closed, with a link on which no byte is lost (HubManager.stop,
\* _main_thread_loop); what other threads send after its end is not covered.
StoppedUnblanked ==
    Stopped /\ scenario.failures \subseteq {"id"} => ~hub.blanked \/ ~state.lidOpen
=============================================================================
