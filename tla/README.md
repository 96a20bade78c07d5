# A verification project for clockd

clockd is the clock daemon of a phone: it owns the system clock, the time zone
and a handful of settings, follows the time the cellular network announces if
the user lets it (*autosync*), and tells every application when something
changed. This directory models it in TLA+, model-checks it with TLC on small
instances, and proves its central invariants with TLAPS for every value of the
constants. Sources are named relative to the repository's root.

## 1. Inventory of the system

| Component | State it keeps | Operations |
|---|---|---|
| Clock server, `clockd/server.c` | `autosync`, `time_format`, `server_tz`, `saved_server_opertime_tz`, `was_dst`, the network's time and the ticks at which it was heard, the id of the DST alarm | `server_init`; eleven D-Bus methods, five of which change state; the network's signal; MCE's mode change; the alarm; `save_conf`/`read_conf` |
| Country and zone guessing, `clockd/mcc_tz_utils.c` | `mcc_cache`, `country_tz_name_list`, `registration_status_change_dbus_handler_installed`, calls in flight | registration status (signal and reply), network time info reply, rebuilding the zone list, guessing a zone from offset and DST |
| Zone environment, `clockd/internal_time_utils.c` | the process-wide `TZ` | set, save and restore `TZ`, compare zones, DST flag of a second; running the helper |
| Decoder, `clockd/codec.c` | none | the network's eight integers to a `struct tm` |
| Privileged helper, `clockd/rclockd.c` | none; it changes the system clock, the RTC and `/etc/localtime` | `rclockd clockd <seconds>`, `rclockd clockd <:zone>` |
| Client library, `clockd/libtime.c` | a connection, cached zone, format, autosync and default zone, one semaphore | the public `time_*` functions |
| Scripts, `etc/osso-backup`, `etc/osso-rfs-scripts` | the configuration file | replace or remove the file, then kill the daemon |
| Main loop and signals, `clockd/clockd.c`, `mainloop.c`, `sighnd.c` | the loop, the count of signals, `clockd_debug_mode` | start, and stop on a signal |
| Logging, packaging, bus policy | - | - |

**Interactions.** Applications call libtime, which sends a D-Bus request to the
server and blocks. The server runs rclockd with `system()` and so waits for it.
The network daemon sends two signals (network time, registration status) and
answers two asynchronous calls of the server. Every accepted change is broadcast
(`time_changed`). The configuration file is shared with two scripts, which edit
it under the running daemon. All C code of the server shares one environment
variable, `TZ`, which nearly every function reads or borrows.

**What is hard.** The server is single-threaded, so what interleaves is whole
handlers: a reply that comes after the client has changed its mind, a message
whose time is used long afterwards, an alarm that was computed in another zone,
a crash between any two of them, a file replaced while the daemon runs. Inside a
handler what is hard is the order (the zone before or after the alarm, the file
before or after the broadcast), the early returns when one system call fails,
and what each use of `TZ` leaves behind. Around the server there is real
concurrency: helpers that outlive the daemon which started them, the threads of
an application inside the library, requests that are lost, late or sent twice,
signals of the network daemon that cross the answers to clockd's questions, and
a signal handler that stops the main loop from wherever the process is.

**What makes each part correct.**

* Server: exactly one alarm, due in time for the next DST change; settings
  survive any crash; a disabled autosync stays off; every change of the zone is
  announced; the clock jumps only where a client or the network told it to.
* Country guessing: the cached list is never another country's; a reply heard
  after autosync was switched off moves nothing.
* Zone environment: `TZ` is never left at a zone that is not the server's own.
* DST search: 21 rounds find the exact second of the change.
* Helper: `/etc/localtime` is never lost, and a run does nothing but what the
  server takes for granted of it.
* Library: the cache is the server's settings whenever it is at rest; temporary
  changes of `TZ` are undone and seen by nobody else; a request that timed out is
  not carried out once more after its retry has succeeded.
* Watching the registration: the cached country follows the phone's.
* Main loop: one signal ends the process unless its handler has interrupted a
  lock that it needs, and no freed loop is touched.

Every hazard of the code that a test hardly reaches is in `PROJECT.json`, at its
line, with the property that watches it or the reason why none does yet.

## 2. The modules

| Module | Contents |
|---|---|
| `TzNames` | Zone names and their spellings, the C library's view of them through `TZ`, comparison, the zones of a country, the guess, the decoder. Pure operators, no state. |
| `HelperOutcomes` | What one run of the helper may have done. Used by the next two. |
| `ClockServer` | The daemon: state, one action per handler, its environment, the properties. Extends `TzNames` and `HelperOutcomes`. |
| `HelperPromise` | The specification of a run of the helper that `ClockServer` relies on: an outcome of `HelperOutcomes` in one step, and what is reported of it. |
| `Rclockd` | The helper, one action per system call; any number at once. Implements `HelperPromise`, per helper, under a refinement mapping. |
| `NetworkTime` | An abstract clock: it runs, and jumps only to a requested time, or to the network's time extrapolated to now. `ClockServer` implements it under a refinement mapping. |
| `DstSearch` | The bisection of `next_dst_change`, with the numbers of the code. |
| `LibTime` | The client library in an application of several threads: semaphore, cache, `TZ`, requests and their retry; the server reduced to its settings and a queue. |
| `RegistrationWatch` | The part of `mcc_tz_utils.c` that asks for the registration status and watches its changes, with the bus and the network daemon as queues. |
| `Shutdown` | `main`, the main loop and the signal handler. |
| `MCClockServer`, `MCDstSearch`, `MCRclockd`, `MCLibTime`, `MCShutdown` | Small worlds for TLC. `RegistrationWatch` needs none. |
| `TzNamesProofs`, `DstSearchProofs`, `RclockdProofs`, `LibTimeProofs`, `RegistrationWatchProofs`, `ShutdownProofs` | The theorems about these modules and their proofs. |
| `ClockServerProofs` | The same for the invariants of `ClockServer` that each function keeps for itself. |
| `ClockServerStepProofs` | What a handler as a whole does: the file keeps the settings, `TZ` is the server's own, the action properties, and that `ClockServer` implements `NetworkTime`. Builds on the former. |

### How the model corresponds to the code

*A handler is one step.* The daemon has one thread and one main loop, and
`system()` blocks, so nothing of the daemon runs inside a handler. A handler is
written as the code writes it, as the composition of the functions it calls:
each C function is an operator of the same name on a record of the whole state
(`Here` is that record, `Becomes(r)` makes `r` the next state). An operator that
takes `w` makes system calls; `w` is the *world* of the handler, what these
return: the helper for a time (`set`: the clock moved; `rtc_only`: refused, but
the RTC accepted; `refused`; `not_run`: `system` itself failed), the helper for a
zone (`linked`; `failed`: the old link came back; `link_lost`: it did not; `stale`:
the one before it came back; `refused`), the file (`written`, `open_failed`,
`close_failed`) and the bus match. Any of these may happen in any handler. The
look-up of a country (`found`) may fail too, whenever a list is built.

*Names.* What the code does with a zone name depends on how it is spelled, so a
name is a zone and a spelling: `":"` (clients), `"/"` (the server, for the
operator's zones), `"bare"` (the city database), `"cut"` (a bare name after its
first character was skipped as if it were a colon), `"bad"` (what the server
refuses). `internal_setenv_tz` lets only `"/"` through to `TZ` and replaces every
other spelling by UTC; `internal_tz_res` puts a saved value back through that
same function. Both are modelled as they are, and several properties turn on it.

*State.* Each static variable of `server.c` and `mcc_tz_utils.c` that outlives a
handler is a variable of the same name. To these are added `tzEnv` (what `TZ`
stands for), `timers` (GLib's live timeouts), the two counts of calls in flight,
what outlives the process (`wall`, `mono`, `link`, `conf`, `netEnv`), `restoring`
(a script has replaced the file and is about to kill the daemon), and what the
last handler sent (`reply`, `signals`).

| Code | Action |
|---|---|
| `server_init` | `Start` (`Settle` up to the bus; without the bus the process ends again) |
| a crash, a signal, the scripts' kill | `Stop` |
| `server_set_time_cb`, `server_set_tz_cb`, `server_set_autosync_cb`, `server_set_time_format_cb`, `server_activate_net_time_cb` | `SetTime`, `SetTz`, `SetAutosync`, `SetTimeFormat`, `ActivateNetTime` |
| the network's signal in `server_filter` | `NetTimeSignal` |
| registration signal and reply | `RegistrationSignal`, `RegistrationReply` |
| network time info reply | `TimeInfoReply` |
| an error or timeout for either | `ReplyLost` |
| MCE's mode change | `ModeChange` |
| `handle_alarm` | `HandleAlarm` |
| the passing of a second | `Tick` |
| `clockd_restart.sh`, `clockd-rfs.sh` | `RestoreBackup`, `FactoryReset` |

Methods that only read are left out; they have no effect on the state.

*The helper.* In `ClockServer` a run of the helper is a single outcome;
`HelperOutcomes` says which there are and what they do to the two links
`/etc/localtime` and `/etc/localtime.save`. `Rclockd` has the system calls:

| Code of `rclockd.c` | Action |
|---|---|
| `main`: `setuid`, the choice of argument, the exit code | `Run`, and `Returns` |
| `set_tz`: `stat`, `rename`, `symlink`, and `rename` back | `Stat`, `Rename`, `Symlink`, `Recover` |
| `set_time`: `settimeofday`, the ioctl of the RTC | `Settimeofday`, `SetRtc` |
| a kill between any two | `Kill` |

Each call, the rename back included, may fail, and without rights it must.
`system()` makes clockd wait, so one
clockd has one helper; but a helper survives a clockd that is killed while it
waits, and the next one may start another before the first has ended.

*The library.* A call of an application goes through the points of `LibTime`:

| Code of `libtime.c` | Action |
|---|---|
| `sem_wait` at the start of every function, `TIME_TRY_INIT_SYNC` | `Call`, `Enter` |
| `client_get_rsp`: send and block; the reply or none; hang up and send again | `Send`, `NoReply`, `Resend` (`Request`, `Post`, `Hangup`) |
| `get_synced`: `client_get_tz`, `client_get_time_format`, ... one after the other | `Fetch`, `Miss`, `Synced` |
| `time_get_synced`: `s_inited` after `sem_post` | `Mark` |
| `time_set_*`, `time_get_net_time` and the like after their reply | `Answered`, `Asked` |
| the cached getters | `Read` |
| `time_get_local`, `time_get_local_ex` | `Local` |
| `time_mktime`, `time_get_remote`, `time_get_utc_offset`, `time_get_dst_usage`, `time_get_time_diff`: set `TZ`, compute, restore | `Borrow`, `GiveBack` |
| the server takes a request, answers, or its answer is lost | `ServeGet`, `ServeSet`, `LoseRequest` |
| another client or the network changes a setting | `Change` |

A thread can be overtaken between any two of these. `time_get_time_diff`
borrows two zones one after the other without giving the semaphore back in
between, which is one borrow here.

*Watching the registration.* `Setup` is
`mcc_tz_setup_timezone_from_mcc_if_required`, which returns to the loop or blocks
in `dbus_bus_add_match` (`Added`) or `dbus_bus_remove_match` (`Removed`); `Handle`
takes one answer or signal. `FromClockd` and `FromCsd` are the bus, `Register` and
`Answer` the network daemon. What follows a changed country (the list, the
question for the time) is in `ClockServer`.

*The main loop.* `Shutdown` has `mainloop_run` from `sighnd_setup` to the return,
and a stack of signal handlers that suspend it. A signal is kept back while its
own handler runs, so handlers of different signals nest. `++terminating` is a load
and a store. Of GLib's loop two things matter: the flag that keeps it running is
set by `g_main_loop_run`, not by `g_main_loop_new`; and `g_main_loop_quit` takes
a lock that an iteration holds for a part of its time. Of logging one thing
matters: `syslog` takes a lock that is not recursive, and so does the heap, from
which it allocates. `inLog` says that the thread holds one of them, which it may
anywhere; `ToLog` and `HandlerLog` are the handler's own logs, in order:

| Code of `sighnd.c` | Point of a handler, and the step that leaves it |
|---|---|
| `sighnd_handler` before the switch, with its debug log | `entered`, `Dispatch` |
| `SIGUSR1` after the toggle, with its log | `switched`, `Switched` |
| `sighnd_terminate` with its debug log; the load and the store | `called`, `Load`; `loaded`, `Store` |
| `mainloop_stop(0)` | `counted`, `MainloopStop` |
| the log before `exit(1)`, and that of `mainloop_stop` if there is no loop | `ending`, `Exit` |

*Undefined behaviour.* `decode_ctm` reads its local `invalid` without having set
it for a dated message. `Decode` therefore returns a set: either value may be
what the stack holds, and a handler takes any.

## 3. The runs

All four claims are action properties about a single step, so a counterexample
needs no fairness.

| Run | Question | Bounds |
|---|---|---|
| `settings` | What do clients, crashes, failed writes, backups and resets do to the settings? `DisabledStaysOff`, `RestartKeepsSettings`, `EnvNeverForeign` | five names (every spelling the server tells apart), one failure per handler, two values of `CLOCKD_NET_TIME`, one earlier file, one network message, no time passes |
| `network` | What does the network do? `TypeOK`, `CountryListFresh`, `AutosyncOffIsPassive`, `TzChangeAnnounced` | two messages (a dated one that is ahead of the clock, an undated one without a zone), two countries (one of which repeats a zone and one of which has two), one call of each kind in flight; the helper may fail to set the time, a country may not be found; what failing writes do is for `settings` |
| `alarms` | Are there the right alarms, and the right time, as time passes? `SingleAlarm`, `AlarmFollowsZone`, `KeepsNetworkTime` | five seconds of clock, three since boot, a window of two seconds, DST in seconds 3, 4, 8 and 9 |
| `dst_search` | Does the bisection find the second? `AlarmAtChange` | the code's 1,209,600 seconds and 21 rounds; changes at both ends, around the middle and behind the window |
| `helper` | What do overlapping, failing and killed helpers do to the phone's zone, and to what the server expects? `TypeOK`, `LinkSurvives`, `LinkReturns`, `KeepsPromise` | two helpers that are run again and again, an installed zone and two that are not (of which one is linked at first), one time |
| `clients` | What do threads, lost requests and other clients do to the library? `TypeOK`, `Coherent`, `TzAtHome`, `NoLateCopy`, `SemaphoreHeld` | two interchangeable threads, seven calls (one of each kind, and a second set), one change from outside, requests lost for two of the keys, two requests at the server |
| `watch` | Does clockd learn of every change of country? `TypeOK`, `MatchAsBelieved`, `UpToDate` | two countries and none, three questions and two signals under way at once |
| `shutdown` | Does a signal end the daemon, from wherever? `TypeOK`, `NoQuitAfterFree`, `SignalEnds` | two terminating signals and the one that switches the log; as often as they like |
| `claim_*` | Four statements of the documentation and the scripts that the code contradicts (section 6) | as small as the counterexample allows |

**Why the bounds are enough.** A handler tells zones apart by spelling, by being
installed, by offset, by the abbreviations sampled, and by being of the Etc/GMT
kind; the four model zones differ in each of these. A handler looks at one
message, one name and one world, and at state that earlier handlers left; since
each run explores every reachable state to its end, sequences have any length.
`MaxPending = 1` loses little: replies of one kind differ only in the autosync
at the time they come, not in that of the call. `AlarmIds = 2` reuses a source id as soon as it may,
which is the worst case for the stale id kept while `handle_alarm` runs. Where
time plays no part (`settings`, `network`), `MaxMono = 0` stops it; `alarms` lets
it pass, over a change of DST and back. In `alarms` a zone changes its flag at
most once within the window, as every real zone does in two weeks.

Two helpers are the worst case that matters: what a third does to the links is
what either does when it is run again, and the theorem (section 5) holds for any
number. In `clients` a read, a set, a borrow and a fetch of one thread meet each
of the other; a third thread would only wait for the semaphore. Losing requests
for two keys, the first one that is fetched and one that is not cached, meets
every path of the retry; the other keys take the same path as the first. The
two requests at the server are a stale copy and the one after it. In `watch` two
signals are needed for a signal and an answer to be overtaken by a further
signal, and three questions for autosync to be switched on, off and on again
before the first is answered. In `shutdown` a third terminating signal does what
the second does: it finds the count raised, and ends the process or waits behind
the second for the same lock.

**Fairness.** There is none in `ClockServer`, `LibTime` and `RegistrationWatch`,
whose properties are safety properties: an alarm that is due may fire late or
never, a thread may stay where it is. `Rclockd` has weak fairness of the work of
each helper, which its kernel schedules like any process; not of starting it, and
not of a kill. In `Shutdown` a handler that can go on does (weak fairness), and
signals do not come so fast that what they interrupt, be it the thread or the
handler of another signal, never goes on; nor does the thread log so much that
it does nothing else (strong fairness of both). A signal itself need not come. A
process that waits for a lock it holds has no step to take and stays where it
is.

**Deadlock** is checked except where a run may really end: `dst_search`, whose
loop terminates, and `shutdown`, whose process ends or waits for itself. In
`clients` it says that no interleaving makes every thread wait.

## 4. What the properties say

* `RestartKeepsSettings`: in *every* state in which the daemon runs and the file
  is neither lost nor replaced by a script, a crash now and a restart give back
  the same settings. It relates each handler's assignments to when it saves, and
  `save_conf` to `read_conf`. The file never names a `":"` zone, so such a zone
  comes back as the one `/etc/localtime` points to. It does not if a helper, for a
  later request, has lost that link or has put an older one in its place, which
  the property allows because the code has no way to tell: both leave one of the
  two links missing.
* `EnvNeverForeign`: `TZ`, borrowed for every comparison, is at the end of every
  handler the server's own zone or UTC, never one of those it was borrowed for.
* `SingleAlarm`: one timeout, the one whose id the server holds, due within two
  weeks. Losing it means no DST change is ever announced again; leaving one
  behind means alarms pile up, since each sets the next.
* `AlarmFollowsZone`: after the alarm, or an accepted zone of a client, no change
  of DST lies before the new alarm. It is *not* stated for the other handlers:
  `server_set_time` arms the alarm for the requested time whether or not the
  clock was moved, and `set_net_timezone` arms it while `TZ` is still the previous
  zone, so there it does not hold.
* `CountryListFresh`: the zone list is never that of another country than the
  cached one. It may be empty: the code is cached before its country is looked
  up, so that a look-up that fails is not tried again for the same code (section
  6). What guards the property is that the old list goes first.
* `AutosyncOffIsPassive`: with autosync off a running daemon moves the clock, the
  link and the zone only when a client asks; nothing the network sends does, late
  replies included.
* `TzChangeAnnounced`: the zone of a running daemon changes only with a
  broadcast, unless the configuration file was lost in that step.
* `KeepsNetworkTime`: refinement of `NetworkTime`, where the network's time is a
  single offset from the seconds since boot. The daemon keeps two numbers, the
  time heard and the ticks at which it was heard; the clock jumps only where a
  client asked, or to what these two say about *now*.
* `DisabledStaysOff`: `CLOCKD_NET_TIME=disabled` wins over the file, over a
  restored backup and over clients, across restarts.

* `LinkSurvives`: whatever helpers overlap and wherever they are killed, a
  missing `/etc/localtime` is owed by a helper at work, or was lost to a kill or to
  a rename back that failed ("not recovered"), and then `/etc/localtime.save`
  still names a zone: a second rename of nothing does not overwrite it.
  `LinkReturns` adds that without these two it comes back, whatever else fails.
* `KeepsPromise`: refinement of `HelperPromise`, as long as no other helper
  disturbs this one: halfway through `set_tz` the caller sees nothing done, and
  at the end one of the outcomes that `ClockServer` reckons with. Success is
  answered only for a zone that was linked; a lost link is answered with failure,
  or the helper was killed.
* `Coherent`: an application that calls `time_get_synced` for every `time_changed`
  signal has the server's settings in its cache whenever no thread is inside.
  Exempt are a setting whose last fetch failed, which the code counts as fetched,
  and a change without a signal.
* `TzAtHome`: while a thread has borrowed `TZ`, it finds there what it put there;
  at all other times `TZ` is the cached zone.
* `NoLateCopy`: when a set has returned 0, no second copy of it is still under
  way. The library hangs up before it sends again, so only the reply to the last
  copy counts, and the server has met the first one by then; a copy that it met
  later would undo what came in between.
* `SemaphoreHeld`: every early return gives the semaphore back, once.
* `MatchAsBelieved`: the flag is what the bus has, so that a match that was
  refused is tried again the next time and one that is there is not added twice.
* `UpToDate`: when nothing is under way and autosync is on, `mcc_cache` is the
  country the phone is in, however answers and signals have crossed. Two
  exceptions are stated, because they are real: a change after the network daemon
  has answered and before the bus has the match is lost, since
  `mcc_tz_utils.c:440` asks before `:446` adds the match; and a question that fails
  is not asked again.
* `NoQuitAfterFree`: `mainloop` dangles between `g_main_loop_unref` and the
  assignment after it (`mainloop.c:45-46`). No handler quits it then, since the
  loop was left only because a signal was counted, and the next one forces the
  end; also if it came between the load and the store of the count.
* `SignalEnds`: one signal ends the process, but for three windows that the
  property names. Between `g_main_loop_new` and `g_main_loop_run` the quit is
  forgotten; inside an iteration that holds GLib's lock the handler waits for
  itself. After both a signal of another kind ends the process, which is what
  `terminating` is for. The third is a log or an allocation, of the daemon or of
  another handler: a handler that has to log there (before `server_init` has
  made the loop, in debug mode, on the second signal, or for `SIGUSR1`) waits for
  the lock of its own thread, and no further signal helps, since the forced exit
  logs first.

For every property `PROJECT.json` names a plausible bug (a definition headed
"Wrong variant" in the modules) under which the run finds it violated.

## 5. What is proved

Every invariant and every action property that the passing runs check, and both
refinements, are theorems, for every value of the constants that meets the named
assumptions; one needs a hypothesis about daylight saving besides.

| Theorem | Module | Statement |
|---|---|---|
| `Invariance` | `ClockServerProofs` | `Spec => []IInv` |
| `TypeCorrect` | `ClockServerProofs` | `Spec => []TypeOK` |
| `OneAlarm` | `ClockServerProofs` | `Spec => []SingleAlarm` |
| `Disabled` | `ClockServerProofs` | `Spec => []DisabledStaysOff` |
| `FreshList` | `ClockServerProofs` | `Spec => []CountryListFresh` |
| `EverythingFits` | `ClockServerStepProofs` | `Spec => []FInv` |
| `EnvIsOwn` | `ClockServerStepProofs` | `Spec => []EnvNeverForeign` |
| `RestartKeeps` | `ClockServerStepProofs` | `Spec => []RestartKeepsSettings` |
| `NetworkIsPassive` | `ClockServerStepProofs` | `Spec => AutosyncOffIsPassive` |
| `ZoneIsAnnounced` | `ClockServerStepProofs` | `Spec => TzChangeAnnounced` |
| `AlarmFollows` | `ClockServerStepProofs` | `Spec => AlarmFollowsZone`, if `SeasonsOutlastWindow` |
| `ClockKeepsTime` | `ClockServerStepProofs` | `Spec => KeepsNetworkTime`, the refinement of `NetworkTime` |
| `SearchIsExact` | `DstSearchProofs` | `Spec => []AlarmAtChange` |
| `DelayIsChange` | `TzNamesProofs` | what the search computes is what `DstDelay` says, for a flag that changes once within the window and however often outside of it |
| `ZoneSurvives` | `RclockdProofs` | `Spec => []LinkSurvives` |
| `Implements` | `RclockdProofs` | `Spec => KeepsPromise`, the refinement of `HelperPromise` |
| `TypeCorrect` | `RclockdProofs` | `Spec => []TypeOK` |
| `Exclusion` | `LibTimeProofs` | `Spec => []SemaphoreHeld` |
| `TzReturned` | `LibTimeProofs` | `Spec => []TzAtHome` |
| `NoCopyIsLate` | `LibTimeProofs` | `Spec => []NoLateCopy` |
| `CacheIsCoherent` | `LibTimeProofs` | `Spec => []Coherent` |
| `TypeCorrect` | `LibTimeProofs` | `Spec => []TypeOK` |
| `MatchIsBelieved` | `RegistrationWatchProofs` | `Spec => []MatchAsBelieved` |
| `CountryIsUpToDate` | `RegistrationWatchProofs` | `Spec => []UpToDate` |
| `TypeCorrect` | `RegistrationWatchProofs` | `Spec => []TypeOK` |
| `FreedLoopUntouched` | `ShutdownProofs` | `Spec => []NoQuitAfterFree` |
| `TypeCorrect` | `ShutdownProofs` | `Spec => []TypeOK` |

**The argument of `ClockServerProofs`.** A handler composes functions on the record
of the state, so the proof does too. `Sound(r)` is what every function preserves:
the types, network ticks that do not lie in the future, `autosync` false when
disabled, a list that is the one of the cached code if there is one, or empty. A
lemma per function states what it needs of `r` and what it
gives back; a lemma per handler chains them. `Good(r)` adds that the process runs
and has its alarm, `Idle(r)` that there is no process and no timer. The inductive
invariant `IInv` is `Sound(Here)`, the alarm exactly when the daemon runs, and the
types of what was sent.

**Why it has to be stronger** than the properties it serves. `TypeOK` is not
inductive: that the time a handler sets and broadcasts is a natural number needs
the network ticks not to exceed the seconds since boot, because the extrapolation
subtracts them. That the saved zone has a colon and is a zone needs the country's
list to hold zones only. `SingleAlarm` is about a timer's id, so it needs the
single timer to be the known one *before* the step for the removal to hit it.
`CountryListFresh` needs the cached code to be one of the database. The lemma
`CountryZonesSingle` is no part of the invariant: that a code with several cities
leaves at most one zone, since the code takes two bare names for one and the same
(section 6), is why the model may write the list as a set.

**The argument of `ClockServerStepProofs`.** Properties of a whole step cannot be
had from what each function preserves; they need what it leaves alone.
`Changes(r, s, F)` says that only the fields `F` differ. It composes, so a lemma
per function names its fields, and the same is had for a handler by taking unions;
what a function writes is only looked at where a property speaks of the field.
`FInv` adds `Fits(Here)` to `IInv`:

* `TZ` is the server's zone or UTC (`EnvFits`). It is not so *within* a handler
  that has borrowed `TZ`, so each lemma says whether its function starts or ends
  with it;
* the file has the settings unless a script has replaced it or it was lost
  (`FileFits`), and never names a zone with a colon (`FilePlain`); a server's zone
  with a colon is the one that `/etc/localtime` points to, unless one of the two
  links is missing because a helper lost the one or put the other in its place
  (`LinkFits`). Together these are why `RestartKeepsSettings` holds at every
  point where a crash may come.

`AutosyncOffIsPassive` then follows field by field from what each of the network's
handlers touches with autosync off (`Follows`), `TzChangeAnnounced` from a lemma per
handler that a new zone comes with a broadcast or a lost file (`Announced`).
`KeepsNetworkTime` is proved step by step (`ClockStep`): each handler leaves the
clock alone (a step of `NetworkTime` that hears or forgets, or a stutter), or sets it
to a requested time or to the network's time extrapolated to now (`ClockAdopts`);
the two numbers of the code stand for one offset, which only hearing a message
changes.

`AlarmFollowsZone` rests on one thing that is not in the code: `next_dst_change`
compares the flag now with the flag two weeks ahead and, if they are equal, sleeps
for two weeks. If a zone changed its flag twice within that window, both changes
would be slept over. `SeasonsOutlastWindow` excludes that: equal at both ends means
equal in between. Every zone in use keeps daylight saving, and standard time, for
longer than two weeks at a time. TLC evaluates it for the zones of its worlds
(`SeasonsAreLong`).

**`DstSearchProofs`** keeps the bracket: the change lies in `(timeout, timeout +
max_timeout]`, and `max_timeout` after each round is the entry of an explicit table
of the 22 roundings of two weeks, the last of which is 1.

**`RclockdProofs`.** `LinkSurvives` is inductive with the types, for any number of
helpers, since it says both who owes the link and where the zone is meanwhile. A
helper that finds the link missing renames nothing and so leaves the saved one; a
helper at its symlink was given a zone, so what it links is one. The refinement
needs `PromiseInv`: a helper that has been alone since it started finds the links
as they were then, but for the rename that it has done itself, if that one
succeeded. Of its steps only the last changes what `HelperPromise` sees, and there
is one lemma for each way to end. The rename back puts the link back, or an older
one in place of the live one (if the first rename had failed), or fails, which
leaves no link if the first had succeeded. That is how a missing link may be owed
by nobody though no helper was killed (`givenUp`).

**`LibTimeProofs`.** The semaphore is down exactly when one thread is at a point
between `sem_wait` and `sem_post`; each step either moves on inside, stays outside,
enters with the semaphore up, or leaves and posts it once. Three lemmas say so,
and every step is an instance of one. `TzAtHome` rests on it: whoever writes `TZ`
or the cached zone is inside, so nobody else has borrowed `TZ` then.

`NoLateCopy` and `Coherent` need to know where every request is. `Staged` says what
a thread may wait for at each point; `OneAlive` that one request at most has
somebody waiting for it, that it is what its thread is waiting for, and that no
other request of that thread stands behind it in the queue, since a thread hangs up
before it sends again; `Clean` that once the answer is there, no copy is left:
the queue is first in, first out, and the answer was to the last copy.
`Coherent` then has three parts (`Kept`), for what the thread inside has fetched,
for the cache while nobody is inside, and for an answer that has been given and not
yet read: each agrees with the server, or somebody is yet to fetch (`Awaited`), or
one of the two exemptions applies. That a getter returns a boolean, which `TypeOK`
says, needs flags to be booleans at the server and on their way too (`Flagged`).

**`RegistrationWatchProofs`.** Queues have any length here. A request to the bus is
the last that clockd has sent, since it waits for the answer (`Ordered`); while it
waits, either the request is still to reach the bus and the bus has what it had
before, or its one answer is in the queue and says what the bus has now
(`Waiting`). For the country, follow the last message that names one: what csd
has sent last is where the phone is; when that has come through, so is what
clockd will handle last; when that is handled too, it is the cache (`Current`).
Answers of the bus that are taken out of the middle of the queue name no country,
so the last one stays the last. A change that passed while autosync was off is made
up for by a question that is still under way (`Asking`), and csd answers after the
change: that is why asking first and matching second loses only the gap. The
lemmas about counting and about appending to, shortening and removing from a
sequence are stated once, at the front.

**`ShutdownProofs`.** `NoQuitAfterFree` needs that a loop is left only when a signal
has been counted (`Counted`), which needs the same of a loop that was told to
stop and of a handler past its store; and that while the loop is freed every
handler on the stack either has not read the count or has seen it raised
(`Forced`). The stack is a sequence of any length, so there may be any number of
signals; that it is bounded, which `TypeOK` says, is because a signal is kept back
while its own handler runs, so that no two frames are of one signal.

**Assumptions.** `ZonesAssumption`, `OffsetAssumption` (`TzNames`),
`InputAssumption`, `WorldAssumption`, `BoundAssumption` (`ClockServer`),
`ChangesAssumption` (`DstSearch`), `RclockdAssumption`, `SignalsAssumption`,
`LibTimeAssumption`, `WatchAssumption`. TLC evaluates them in every run. They say: UTC
is installed; offsets and DST are those of the tables; requested times and dated
messages are positive (the bus's 32 bits and a wall clock before 1970 are left
out, see below); GLib has at least two source ids; outcomes are those listed; a flag
is a boolean wherever it is set, as its type on the bus and in `libtime.c` says.

**Only model-checked:** `LinkReturns` and `SignalEnds`, which are liveness under
fairness; that and `ENABLED` are out of the prover's reach. So is what a recursive
function computes for every input, since the library's induction theorems take an
operator that no installed back-end can instantiate: `DstSearch` writes the
bisection as steps, and its proof as an invariant, for that reason.

## 6. Where the code and its documentation disagree

Each is a run that TLC finds violated.

1. `claim_set_time` (`clockd/rclockd.c:45`): `settimeofday` is tested the wrong
   way round, so a request that moves the clock is answered with failure, is not
   saved and is not broadcast. `libtime.h:88-92` promises 0 if OK.
2. `claim_zero` (`clockd/server.c:545`): switching autosync on may move the clock
   and broadcasts 0, which `libtime.h:50-52` defines as "time itself has not been
   changed".
3. `claim_autosync` (`clockd/server.c:531`): when the file cannot be opened the
   new value of autosync stays, with no broadcast; `libtime.h:66-70` promises one.
4. `claim_colon_tz` (`clockd/rclockd.c:95`): the helper links `/etc/localtime` only
   to a path that does *not* exist, so a zone in the spelling recommended by
   `libtime.h:217-218` is refused exactly if it is installed. For the same reason
   the `restore_tz` line that `clockd_restart.sh:5-10` writes is dropped without
   effect.

Others were met that no run is spent on. The models do what the code does, and the
properties state around them what is left. In the daemon:

* names of the city database are compared as UTC, whatever zone they name
  (`mcc_tz_utils.c:38` through `internal_tz_cmp`). So every name is a duplicate of
  the first (`:44`), every country whose cities are found counts as one of a single
  zone (`:228`), and the code that chooses among several is reached with one at
  most: "First found TZ will be used as current TZ" (`:576`) is never logged;
* the code of a country is cached before its zones are looked up
  (`mcc_tz_utils.c:348`), so a look-up that fails leaves an empty list, and a
  further message with the same code does not try again (`:346`);
* csd is asked before the match is added (`mcc_tz_utils.c:440`, `:446`), so a change
  of country between the answer and the match is lost;
* a dated message may be taken for an undated one (`codec.c:80`), since `invalid` is
  not initialised.

In the helper: the first rename of `set_tz` is not checked (`rclockd.c:97`). When
it fails, the symlink fails as well, and the rename back then replaces the live
`/etc/localtime` by an earlier one, which the log calls "recovered"; when it has
succeeded and the rename back fails, no `/etc/localtime` is left ("not recovered").

In the signal handler: `syslog` is not async-signal-safe (`sighnd.c:44`, `:51`,
`:74`, `:80`; `mainloop.c:68`). A handler that has interrupted a log and has to log
itself waits for ever for its own thread; a lone `SIGUSR1` is enough, since it
always logs.

In the client library:

* `time_get_synced` returns 1 for a failure (`libtime.c:505`), where `libtime.h:73`
  says -1;
* `time_get_autosync` returns 0, disabled, once a fetch has failed
  (`libtime.c:503`), where `libtime.h:426` says -1;
* `time_get_dst_usage` returns -1 for a zone that is not in daylight saving
  (`libtime.c:852`), where `libtime.h:384` says 0;
* `time_get_remote` sets `TZ` to the cached zone afterwards (`libtime.c:737`), which
  is empty where the server has none: a `TZ` that was not set, meaning
  `/etc/localtime`, becomes an empty one, meaning UTC. `libtime.h:276` calls the
  change temporary;
* the second attempt of `client_get_rsp` passes on the `DBusError` that the first
  has set (`libtime.c:104`), which libdbus takes for a programming error.

## 7. Not modelled, and the plan

**Left out on purpose.** Logging, but for `syslog`'s lock in `Shutdown`; packaging and the bus policy; formats of
strings; the width of integers (times are 32 bits on the bus, ticks are a
`clock_t` that wraps); the two broadcasts (session and system bus), counted as one;
the query methods of the server; the functions of the library that share no
state (`time_get_time`, `time_diff`, and the constructor and destructor it
exports). When the bus itself ends, clockd does not (`exit_on_disconnect` is
switched off) and nothing connects it again; what it does then is nothing.
`next_dst_change` assumes a flag that changes at most once within the two weeks
that it looks ahead, and so do the models.

**Modelled coarsely.** `save_conf` is one step of the process: a crash *between*
unlink and close is the same file as `close_failed` followed by `Stop`. In
`ClockServer` a handler and its helper are one step, so the overlap of a helper
with the next daemon is in `Rclockd` only. `LibTime` takes the server to be its
settings and a queue; what `ClockServer` answers to each request is a choice there.
What the scripts restore can be overwritten by a handler that saves before the
kill: that is in `ClockServer`, and no property claims otherwise.

**Next, in this order:**

1. `SaveConf` at the granularity of its system calls, with the scripts' edit and
   kill between any two, and its proof that a crash leaves the old file, the new one
   or none.
2. That `Rclockd` keeps its promise to a `ClockServer` that starts a second helper
   while the first of a killed daemon is at work: what is left of `HelperPromise`
   without the condition of being alone.
3. Liveness of the alarm: a change of DST is eventually announced, under weak
   fairness of the alarm and of time. For TLC only.
