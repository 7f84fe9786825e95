# Verification of vin

vin is a status bar for the Hyprland compositor, written in C++ with GTK through the
peel bindings.  This directory holds TLA+ modules that model its core, TLC configurations
that check them, and proofs for TLAPS.  File names below are relative to `src/vin/` of the
repository unless they name another place.

## The system

Two threads.  The main thread runs GTK's loop on the default main context.  The worker
thread (`application.cpp`, `start_worker_thread`) runs a second loop on `m_worker_context`.
Objects get both contexts when they are created and post closures from one to the other with
`MainContext::invoke`; the closures of one priority run in the order in which they were
posted.  Apart from that the threads share members without locks.

| Component | State | Operations | Interacts with |
|---|---|---|---|
| `HyprlandEventListener` | the connection to `.socket2.sock`, its watch | `vfunc_init`, the watch's callback, `vfunc_dispose` | reads on the worker thread, posts one closure per known line to the main thread, which emits a signal |
| `HyprlandWorkspaceListModel` | items by id, number of special items, active ids | `vfunc_init` (two commands), `on_new_workspace` (one command), `on_remove_workspace`, `on_workspace_change`, `on_active_special` | signals of the listener; `items_changed` and a property to GTK widgets |
| `HyprlandCommand` | one connection to `.socket.sock` | `create`, `send`, `send_and_forget` | called on the main thread, blocks it |
| `NotificationServer` | name, object and connection ids | `start`, `stop`, GDBus callbacks, four methods | D-Bus on the worker thread, posts a `Notify` to the main thread |
| `NotificationListModel` | notifications ordered by id, the id counter | `vfunc_init`, `on_new_notification`, `remove`, `dispose_notify` | signals `empty`, `not-empty`; `items_changed` |
| `NotificationWindow` | visibility | `on_activate`, `on_empty`, `on_not_empty`, margins | the list model |
| `Notification` | one buffer with all texts, views into it, a map of actions | `is_valid_type`, `from_variant` | parsed on the worker thread, used on the main thread |
| `TimeModule` | a 256-byte buffer with two formats, time and date | timer, Lua call, `update_format`, `update_time` | timer on the worker thread, Lua on the main thread |
| `Window` | three boxes, an entry per module | `vin_window` (Lua), `configure_modules`, `vfunc_position` | creates and removes the modules |
| `Config` | the Lua state, two file monitors | `vfunc_init`, `monitor_*`, `init_state`, `load_config` | monitors on the worker thread, loads on the main thread |
| `Application` | exit status, the actions | startup, activate, toggle, quit, reloads | all of the above |
| row widgets (`HyprlandWorkspaceItem`, `NotificationItem`) | the object they show | setting another object, `on_clicked` | a click sends a command; GTK's list views give a row another object beyond the rows they keep |

What is hard about it: the compositor, the two loops and the D-Bus clients move on their
own; a snapshot and a stream of events come over two sockets; widgets follow lists by
positions and edges; references to removed objects die late; and Release builds drop
`g_assert` with its operand (`CMakeLists.txt:29`).  `PROJECT.json` lists each such place as a
hazard at its line.

What makes the components correct:

- workspaces: the list ends up as the compositor's, whatever the order of connection,
  snapshot and events; the counter, the button, the rows and the highlight agree with it;
- notifications: each `Notify` is answered once, new ids are fresh, the list stays ordered,
  a click removes the notification it is on, and the window is there while there is one;
- parsing: each field is read by the statement meant for it, and a text stays what it was
  while the buffer moves;
- time: no write leaves the buffer as long as the timer has not met a call, and the labels
  come to show what was asked for; command: a request that counts as sent was sent whole; window: the boxes show what the config says;
  application: a config that was corrected takes effect.

## Modules

```
Hyprland <- HyprlandEventListener <- HyprlandWorkspaceListModel <- WorkspaceSync <- MCWorkspaceSync
                                                                        ^
                                                                WorkspaceSyncProofs <- WorkspaceSyncOrderProofs
NotificationServer <- NotificationListModel <- NotificationCenter <- NotificationCenterProofs
                                                       |
                          NotificationService <- (INSTANCE)
NotificationParse <- MCNotificationParse
        ^
NotificationParseProofs
Window <- Layout <- MCLayout
   ^         ^
   |   LayoutProofs
Config <- Application <- MCApplication
               ^
       ApplicationProofs (INSTANCE LayoutProofs)
TimeModule <- MCTimeModule
    ^
TimeModuleProofs
Exchange <- HyprlandCommand <- HyprlandCommandProofs
```

### Workspaces

`Hyprland` is the environment: the compositor's workspaces, focus and special workspace, and
the two sockets as the code takes them for granted.  `wire` is what the kernel holds of the
event socket.  One line is emitted per change, in the order of the changes, and only to a
client that is connected.  Two assumptions deserve a name: a change of focus is always
announced by `workspacev2` (the code does not subscribe to `focusedmonv2`), and the focused
or shown workspace is not destroyed.

`HyprlandEventListener` adds `queue`, the closures posted to the main thread, with one action
per iteration of the worker loop (`ReadLine`).

`HyprlandWorkspaceListModel` has one action per step of `vfunc_init` that the compositor can
come between - connection, first command, second command - and one disjunct of `Dispatch`
per signal.  A handler runs on the main thread to its end and is one step; what it asks the
compositor is answered within the step, with the state of the moment.  `m_items` maps ids to
`is-active`.  `rows` and `sensitive` are the widgets' copies: they change by
`items_changed` and by the notification of `is-any-special` alone, which is how they can be
wrong.  Commands may fail and answers may be cut short: the handler then gives up the
workspace, or the uncaught exception ends the process.  Three history variables (`dropped`,
`extraRows`, `extraSpecial`) record what the code gives up or counts twice, so that the
properties can say exactly how far the list may be off.  `G_ASSERT` chooses the build.

`WorkspaceSync` composes them and states the properties.

### Notifications

`NotificationServer` follows the object on the worker thread: the name, the registered
object, and `bus_method_call` on the calls in the order of their arrival.  A call is known
by its place in `calls`, its answer is at the same place of `reply`.  Parsing is left to
`NotificationParse`: the call's `replaces` is `replaces_id`, and `InvalidNotify` is a call
that `is_valid_type` refuses.  So this model is of the builds in which `from_variant` is
defined, those that evaluate assertions.

`NotificationListModel` is the list and the visible part of the window.  `LowerBound` is
`std::ranges::lower_bound`, with its halving.  A removed notification is in `condemned` until
its last reference goes, at any later time; that is when `dispose_notify` runs.  Ids are
counted modulo `IdSpace`, 2^32 in the program.

`NotificationCenter` adds the clients, the user and the widgets, and states the properties.

`NotificationService` is what clients and user may rely on, with neither threads nor a queue
nor a search: a call to `Notify` has its whole effect at the moment of its answer, in the order
of the calls; a new one is listed under an id greater than all before, and one that replaces
takes the place of the notification with its id if there is one and otherwise of none.
`NotificationCenter` instantiates it with `listed` for the set of `m_notifications` and `given`
for `assigned`, the number of ids given out.  Taking the name, delivery, the posting to the
main thread, the window and the deaths of widgets are stutters.  `ImplementsService` says so for
every step after which fewer than `IdSpace` ids were given out; after the wrap an id may be
given twice, and nothing of the kind can be promised.

`NotificationParse` is `from_variant`, one step per string or statement.  Texts are
sequences of numbers in one buffer with terminators; views are start and size, as
`StringView`.  `it` is the iterator.  With `G_ASSERT = FALSE` the operands of `g_assert` are
not evaluated and the statement that follows finds a child it was not meant for; what
`read_string` does then is undefined, and the model stops in the phase `undefined`.

### The bar and its life

`Window` is `vin_window`, the function a config calls.  Its lists become one sequence,
`list`, in the order of the loops, and the call is one step per element and per module that
is removed: a Lua error jumps out between two elements, and the properties have to hold of
what it leaves.  `m_modules` is the entry of each module, `m_boxes` the widgets on the screen,
`oriented` the position each widget was told, `vin` the functions in the table.  An element
may be any integer, which the code casts to eight bits, or none.  The workspaces and the
notifications may fail to be initialized, the time never does.  `kept` is history: the
modules that this call has found in place.  Lists are sequences: a Lua table with integer
keys in another order is one whose elements come in that order.

`Layout` closes it with every sequence of calls.  `Config` adds the user's two files, the
monitors, the worker's events, the signals posted to the main thread, and `load_config`: a
config is whether it loads and the calls it makes, and each call is run against `Window`.
`read` and `silent` are history: what was read of each file, and the files whose last change
had no CHANGED to follow, because there was no monitor or the file was replaced.  A call of a
function that is not in the table is a Lua error; a call of one whose widget is gone is
undefined, and the model stops there in the phase `undefined`.

`Application` adds the main thread, the worker up to its loop, the window as `get_active_window`
finds it, and the invocations.  The program's own activation and action come before its loop;
those of others are messages that the loop handles in order for each invocation and in any
order between them.  The loop ends when no window is left, but not before the sources that
are ready are dispatched, so a message that has come may be handled after a quit.

A config may also not come back (`endless`): it has the main thread for ever, and `Endless` is
the one end that `FilesAreFollowed` has to allow besides.  `config.cpp:222` makes a source
that was to interrupt it, and attaches it to nothing.

### The clock

`TimeModule` is the buffer of `time_module.cpp`: cells that hold a character of a format, of a
text, or the terminator, and the pointers as places among them.  The timer's callback runs
on the worker thread, the Lua function on the main thread, and nothing keeps them apart.
Each store of a pointer is an action (`StoreDateFormat`, `StoreTime`, `StoreDate`), and each
load is one step of `Load`, also where one statement loads a pointer twice: lines 116 and 117
take `m_time` for the place of the text and once more for its room, and `m_date_format`; line 121
takes `m_date` twice, then both ends of the date's format.  C++ leaves the order within the
statement open, and so does `Load`.  `view` is what a thread has loaded so far: `out` and `base`
for the place and what the room is counted from, `from` and `to` for the format.  The main
thread loads `m_time` and `m_date_format` in one step (`Together`), since it alone stores them.
When all is loaded, `WriteTime`, `WriteDate`, `ShowTime` and `ShowDate` write the text or set the
label.

The cells change in a step per `memcpy` (`CopyDate`, `CopyTime`) and per text with its
terminator.  Two threads are at the cells at once only when a callback has met a call, and
then `met` and `tainted` hold, under which no property says anything of the cells.

A format is a name with a length and the lengths of the texts it can be rendered to; at one
that is `Malformed` `vformat_to_n` throws after some of the text.  Cells that are no format, and
a format that its own text overwrites, are rendered to anything, or throw.

What C++ leaves undefined is either a choice or an end.  A `memcpy` to a place inside its
source (`time_module.cpp:137`, when only a longer time format is given) copies as if by way
of another buffer or byte by byte.  A text or a terminator that does not fit the buffer
(`WriteOutside`: the room was counted from another place than the text was put to, or was
negative), a view that starts behind its end (`ReadTornFormat`) and a label with no terminator
before the end of the buffer (`ShowOutside`) take both threads to `outside`; labels used while
they are disposed of take them to `undefined`.

`met` is history: a callback and a call have been under way at once.  `tainted` is history too:
the buffer has been through that, or an overlapping copy, since the last call that gave both
formats and met no callback.  `asked` is the formats asked for last.

### The command

`HyprlandCommand` is one command from `create` to its destructor: the socket, the local in
`connect_hyprland`, the temporary, the command in the optional; `write_all` and `read_all`
with every way of cutting up a request and an answer; errors, and the exception of a read
that fails.  Bytes of the request are their places, so that a repeated, lost or reordered one
shows.  `owner` is the process's descriptor table, in which other threads open and close
their own and reuse what was closed.

The optional may have a command already: `vfunc_init` assigns its second one to the first
(`hyprland_workspace_list_model.cpp:77`).  `Init` then begins with the descriptor of the one
that was answered in `command`; a new one goes through `result`, is swapped with it
(`MoveAssign`), and the old descriptor is closed with the result (`DestroyResult`), or by the
assignment itself if there is none (`NoResult`).

`Exchange` is what a caller may rely on: a request that counts as sent was delivered whole,
one that failed was not, and the answer is all that was said before the connection closed.
The refinement `ImplementsExchange` maps `delivered` to `taken = Request` and `heard` to
`response` once the call has answered; the steps that open, move and close descriptors, and
all writes but the last, stutter.  That the answer is empty when the compositor closes early
is allowed by both: the code takes the end of the stream for the end of the answer.

The definitions whose comment starts with "Mutant" are plausible mistakes in the definition
they precede.  They are not part of the model: `PROJECT.json` says which property notices
each.

## Runs

| Run | Bounds | Shows |
|---|---|---|
| `WorkspaceSync` | ids -1, 1, 2; 4 lines, some of other kinds; 1 failure; Release | type, eight invariants, `FocusIsFollowed`, `ListConverges` (2.0 million states) |
| `WorkspaceSyncAssert` | ids 1, 2; 2 lines; Debug | finding: `NewItemIsNew` is violated |
| `NotificationCenter` | `replaces_id` 0 to 2; 4 calls of every method; ids modulo 4 | type, four invariants, `ImplementsService`, `AnsweredOnce`, `NotifyIsAnswered`, `WindowHides` (0.1 million states) |
| `NotificationCenterClose` | 2 calls | finding: `EveryCallIsAnswered` is violated |
| `NotificationParse` | 3 texts, the empty one among them; up to 2 pairs of key and label; Debug | type and three invariants (4.9 million states) |
| `NotificationParseRelease` | 2 texts, no actions; Release | finding: `ReadsAreDefined` is violated |
| `NotificationParseActions` | 2 texts, up to 4 actions; Debug | finding: `OnlyKeysAreActions` is violated |
| `Layout` | up to 2 elements of 5 values in 3 lists; every order of the 3 modules over 2 lists; a position and none | type and five invariants (3.0 million states) |
| `Application` | 6 configs, 2 styles, 2 writes, 2 invocations; Release | type, two invariants, `FilesAreFollowed` (0.9 million states) |
| `ApplicationAssert` | no writes, 3 invocations; Debug | finding: `ActionsFindAWindow` is violated |
| `TimeModule` | 16 cells, 4 for formats of 0 to 3 characters; texts of 0 to 16; 3 calls to choose 2 from; a timer that never stops | type, two invariants, `LabelsConverge` (1.5 million states) |
| `HyprlandCommand` | request 3 bytes, answer 4, reads of 3; 3 descriptors | `DescriptorsAreOwned`, `ImplementsExchange` (5 thousand states) |

Why the bounds are enough.  The handlers of the workspace list look at one id at a time and
at counts of zero and one: two normal workspaces allow a change of focus, one special
workspace both edges of the counter, and three ids a position in front, in the middle and at
the end.  Four lines allow the longest stories told above: created before the snapshot,
destroyed, created again, focused.  The race needs two.  Four calls allow a new
notification, one that replaces it, one that replaces a missing one and one more after the
list was emptied; with four ids the counter wraps within the run.  An array of
up to four texts makes two keys with their labels and every odd one; texts of lengths 0, 1
and 2 make views touch and repeat.
Every sequence of calls to `vin.window` is in `Layout`; a call looks at one element and its
module at a time, so two elements make every pair of repeated, moved, wrong and missing ones,
and three distinct modules every order of a box.  In `Application` two writes are one
that changes a file and one that changes it again or back while the first is on its way; two
invocations are the program and one that races it; the finding needs a third.  In
`TimeModule` two calls are one that leaves its formats to the next; three calls make the
cases of `update_format`: both formats given, one given with an overlapping copy, and too long
together for the kept one.  A malformed format is in either place, one is empty, and the text of one
is as long as the buffer, so that every room is used up; a callback that meets a call takes each
of the ways out of the buffer.
In `HyprlandCommand` three bytes can be written in four ways and an answer can take one read,
two or more; three descriptors let others take what the command had, and are enough for the
two of an assignment and one of others.

`WorkspaceSync` is checked without assertions because there the process goes on after the
race: the rows and the counter must be explained even then, and be off by no more than the
snapshot (`DuplicatesAreBounded`).  `RowsAreItems` holds up to the
first row announced twice.

Deadlock is checked in `Layout`, where a config can always make another call.  Elsewhere it is
not: the compositor, the clients and the user may stop, `from_variant` returns, a
command ends, the clock is disposed of, and the program ends.

### Fairness

`WF(Worker)` and `WF(Main)` in `WorkspaceSync`: a GLib loop dispatches a source that stays
ready.  Nothing makes the compositor act, and failures are not fair: the liveness properties
count a stopped process as an end, not as a success.  In `NotificationCenter`: GDBus delivers
a call that has arrived, the main loop runs its closures, and a list view drops its
references to rows that were removed (`WF(Widgets)`).  Clients, user, and the name are free
to do nothing.  In `Application` both loops are fair as above, and so are the program's
own requests, which it makes before its loop.  The user's writes and the other invocations
are not, and neither is a monitor's success.  In `TimeModule` both threads go on and the timer
comes back every half second (`WF(Main)`, `WF(Worker)`); nobody has to call.
`HyprlandCommand` states no fairness: the compositor need not answer, the code has no
timeout, and the main thread then waits for ever.

## Findings

1. `hyprland_workspace_list_model.cpp:164` - the assertion that a new workspace is new fails
   when a workspace is created between the connection (line 56) and the snapshot (line 70).
   In Release the special counter stays one too high and a row too many is announced.
2. `notification_server.cpp:81` - `CloseNotification` is never answered, although
   `notification.hpp:236` declares it as a method with a reply.
3. `notification.cpp:138` - in Release `replaces_id` is not read, and `app_icon` is read from
   the number; the fields the test compares are undefined.
4. `notification.cpp:155` - labels of actions become keys, from the second action on.
5. `application.cpp:218`, and 210 - two invocations with `-q`, or one with `-q` and one with
   `-t`, whose messages alternate: the second action finds no window, and the assertion ends
   the process.

Seen while modelling, not shown by a run: the listener's closures and the weak references
hold plain pointers (`hyprland_event_listener.cpp:117`, `notification_list_model.cpp:95`);
`read_all` appends -1 bytes after a failed read (`hyprland_command.cpp:52`), which is the outcome
`thrown`; the timer and the Lua function race (`time_module.cpp:86`): a store between the two loads of
`m_time` (`time_module.cpp:117`) or of `m_date` (`time_module.cpp:121`) gives the room of one place
to the text of another, and a long text then runs out of `m_buffer`; short of that the formats
may be lost until a call gives both; and the labels may be used while they are disposed of
(`time_module.cpp:103`); the source that should end an endless config is not attached
(`config.cpp:222`); a row widget that is given another object is not reset (`hyprland_workspace_item.cpp:86`, `notification_item.cpp:70`);
the notifications' Lua function outlives its widget (`notification_module.cpp:86`);
`position_boxes` adds the class of the top to boxes of every position (`window.cpp:100`); a
window whose first config failed stays hidden when the config is corrected
(`application.cpp:163`); the order on the screen is not repaired by a reload
(`window.hpp:185`, `OrderIsExplained` says how far it may be off).

## Proofs

All for every value of the constants that satisfies the modules' named assumptions.

`WorkspaceSyncProofs` proves `TypeOK`, `CountIsExact`, `ButtonIsCurrent`,
`HighlightIsOwned` and `RowsAreItems`.  The inductive invariant of the first four is their
conjunction with `Untouched`: before
the list is ready, the list's members are as they were created.  `CountIsExact` needs
`Untouched`, since `vfunc_init` adds to the counter it finds; `m_num_special \in Nat` needs
`CountIsExact`, since a removal takes one from a counter that is at least the number of
special items, and the item being removed is one; and `ButtonIsCurrent` needs the counter to
be a natural number, for the edges at one and at zero to be all there are.  `RowsAreItems`
rests on what `Position` counts: on ascending rows, the number of smaller ids is the one place
where an insertion keeps them ascending (`InsertionAscends`), and the place of the id that a
removal means (`RemovalAscends`).  For the rows announced first (`InOrderAscends`), the
places of the ids in the map are shown to be 0 and up, each of them once.

`WorkspaceSyncOrderProofs` proves that the list catches up: `FocusIsHighlighted`,
`SpecialIsHighlighted` and `DecidedItemsAreRight`.  What is under way is one sequence,
`Pending`, from the socket through the worker to the main loop.  `Order` is two patterns in
it: the last event of a kind tells how the compositor is now (`LastIn`), and an event of a
new workspace that is focused or shown is followed by the event that says so
(`FollowedBy`).  Lemmas about the patterns say that appending an event and
taking one out keep them, so each action is a case of these.  `Caught` is what the list has made of
the events so far: `MembersRight`, `FocusShown` and `SpecialShown` bind the members as soon as
nothing of the kind is pending.  The snapshot is where the order of `vfunc_init` matters: the
connection is there first, so an event that the snapshot does not tell of is pending.

The same module proves `DuplicatesAreBounded`, which delimits the first finding: in a build that
goes on, each workspace of the snapshot is announced again at most once, and no other ever is.
`Turns` says that between two events of a new workspace with one id there is the event that it
is gone.  `Twice` is the items whose first pending event is that of a new workspace; no step
but the snapshot's adds to it, and the handler that announces one again takes it out, so the
number of duplicates and of those to come never exceeds the snapshot's (`Bounded`).

What `ListConverges` says but for fairness is proved there too.  `WorkShrinks`: each step of the two
threads leaves less to do (`Work` counts a line twice, since both handle it, and the statements
of `vfunc_init` still to come), and when nothing is left the list is at rest or the program at its
end.  `CurrentAtRest`: at rest the list has the compositor's workspaces, but for those the handlers gave up,
the focused one of the normal ones is highlighted, and no other special one than that on
display.  What remains to TLC is that a thread with something to do takes its step.

`NotificationCenterProofs` proves `TypeOK`, `ListIsSorted`, `ReplaceFinds`, `RowsMatch`,
`ShownWhileListed`, `EmptyWindowIsExplained`, `IdsAreFresh`, `AnsweredOnce` and the refinement,
`ImplementsService`.  No run checks `ListIsSorted` and `IdsAreFresh`: `ImplementsService` implies the
latter, and the former is what `ReplaceFinds` rests on.  The invariant has a part for the
server (`SInv`: a call that is queued or not received has no answer, and the queue is in the
order of the calls) and one for the list (`LInv`: until the wrap the counter is the number of ids given out, every
listed id and every answer to a new notification is at most that).  From the latter an
appended notification has the largest id, and its answer is none that was given.  `ReplaceFinds` needs `LowerBound`, a recursive function: `LowerBoundFinds`
gives a function that satisfies its equation on a sorted list, and shows that there is no
other, since a least range at which two would differ is halved into one at which they agree.
The refinement goes along one step of each thread.  `Waiting` says that the queue holds exactly the
calls to `Notify` that were received and are not answered, in their order, so the call that
the main thread takes from its head is the one whose turn it is (`HeadHasTurn`); a queue
that lost or overtook a call would break it.  `ReplaceReplaces` needs that listed ids are distinct and
that the search finds the one sought, and nothing when there is none.  `IsService` drops the
reservation about the wrap for `MaxCalls < IdSpace`: `Counted` bounds the ids given out by the calls made.
`UnansweredCalls` draws the line of the second finding and is what `NotifyIsAnswered` says but for
fairness: a call that was received and has no answer is a `CloseNotification` or still in the
queue, and no `CloseNotification` gets more than the error for a missing object (`AnswersMatch`
says which answers each method can have).

`NotificationParseProofs` proves `TypeOK`, `ViewsAreStable`, `FieldsAreRead` and
`KeysFindTheirLabels`, and that a build without assertions never comes to the end.  `Progress` ties the phase to the
iterator: with assertions the phase and the child it is about to read agree; without, the
read of `app_icon` is the last thing that happens.  `ViewsAreStable` needs the texts to hold no
terminator, and that the buffer only grows at its end; with it, the place that `Assign` chooses for a
key is the key's first.
`MapHasPairs` says what the loop makes of an array of any length: every text but the last is a
key, with the text behind its first place.  `OnlyKeysWhen` draws the line of the fourth finding:
what the test says of the map is true just when every label but the last is the same as some
key; with at most one action, as in the tests, it is (`OneActionIsRight`).
`DebugReadsAreDefined` does the same for the third: with assertions no read is undefined,
without them no call comes to the end by defined reads.

`LayoutProofs` proves all six invariants of `Layout`.  `Matched` is `BoxesMatchEntries` in
the form that a removal keeps: the boxes have no module twice, and have those whose
entries say so.  `Progress` says what a call has done when it is at element `next`: every
module that an earlier element names is in `do_not_remove` and has the entry of the last
such element.  At the end of the lists this is all of `LayoutIsConfigured` but the removal,
which takes the others away.  `Behind` is the order while the call runs: of two widgets of one
box that the call has dealt with, the one in front is named earlier or was found in place.  It
rests on positions growing along the list within one location, and on appending to the end.

`HyprlandCommandProofs` proves `TypeOK`, `DescriptorsAreOwned` and the refinement,
`Spec => ImplementsExchange`, for every size of request, answer and buffer.  The invariant
adds `Sending`, which ties `count` and `data` to what the compositor has (the bytes taken are
a prefix of the request, and the rest begins at `data`), and `Holding`, which says which
objects have a descriptor at each point, and that no two have the same.  From the former, nothing is left to write exactly when the
request is delivered, and so the last write, and no other, is `Deliver`.

`TimeModuleProofs` proves `TypeOK`, `BufferIsSafe`, `FormatsAreKept` and `LabelsAreCurrent`, for
every size of the buffer, every format and every order of the two threads' loads and stores.
`TypeOK` holds whatever the threads do, since a write that does not fit is the end of the
model; `Placed` says where the pointers and the views of a call are, in the first quarter of the buffer.  `BufferIsSafe`
says that the end does not come before a callback has met a call.  `Apart` says that until then,
or after a call that has made it good (`Quiet`), the threads are not both under way; so what a
thread has loaded is what the pointers still are (`Held`), the two loads of `m_time` and of `m_date`
are of one value, and the room ends where the buffer does (`WrittenFits`); `Safe` adds that the
last cell stays a terminator, which a label needs to end, and that `m_date` never passes it.
`Kept` says where the formats are in the middle of a
call: in their place, or where a `memcpy` that is still to come takes them from; it is where
the order of the two copies matters.  `LabelsAreCurrent` rests on `Kept` and on what the thread that
is under way has written so far: the time's text in its place and `m_date` behind its
terminator, then the date's text; a label shows what stands before the first terminator, and
that is the text.  It needs `EmptyAssumption`: of two names of the empty format the cells could
not tell which is meant.  No run checks `FormatsAreKept`, which `LabelsAreCurrent` makes visible.
What remains of `LabelsConverge` to TLC is that a call of the main thread ends.

`ApplicationProofs` proves `ApplicationTypeOK`, `OpenWindowIsSound` and `ChangesArePending`.
The window is not proved about again: each call and step of a config is shown to be a step of
`Layout`, a new window to be an initial state of it, and the invariant of `LayoutProofs` is
taken over by `INSTANCE`.  `ChangesArePending` goes along the way of a change: a write appends an
event or is `silent`, the worker makes a signal of the event at the head of its queue, and
whoever takes a signal reads its file before anything else happens.  It needs
`LoadsIntoAWindow`, since a load that is presented is one of a window that was there when the
config was read.

`ActionsFind` delimits the fifth finding, in Debug builds and for any number of invocations:
`ActionsFindAWindow` holds when no other invocation has an action for the program while one of
them asks it to quit (`Undisturbed`).  The invariant, `FoundAWindow`, says that whoever is between
its activation and its action finds a window, or a program that could not start; the window is
let go by a quit alone, and then nobody else is between the two.  The program's own `-q` needs no
such condition, since it comes before anything of the others is handled.

Only model-checked: liveness under fairness (`FocusIsFollowed`, `ListConverges`, `NotifyIsAnswered`,
`WindowHides`, `FilesAreFollowed`, `LabelsConverge`), which this prover does not reach.

## Not modelled

- Disposal of any object but the clock, and so the hazards of objects used after their end
  (`hyprland_event_listener.cpp:117`, `notification_list_model.cpp:95`) and of `stop`
  running on two threads (`notification_server.cpp:30`): whether GTK and GLib still hold a
  reference then is not told by this code.
- The end of the event stream (`hyprland_event_listener.cpp:143`), and lines that are cut short.
- Row widgets that are given another object (`hyprland_workspace_item.cpp:86`,
  `notification_item.cpp:70`): GTK does so when a list has more rows than it keeps widgets
  for, and when is not told by this code.
- GTK's labels used from two threads at once, in `TimeModule`: only the text that each
  `set_label` reads is modelled.  Two threads that write the same cells at once: the cells
  change in one step per text, and what a race leaves in them is not relied on.  What the
  program does after it has left its buffer.
- The contents of workspaces and notifications beyond what the properties tell apart; the
  hints' effect; `expire_timeout`, which the code reads and never uses.
- Templates, style, margins, layer shell, logging, the build and the vendored libraries.
- GLib, GTK, GDBus, Lua and Hyprland, other than by how the code uses them.

## Plan

Done: workspaces, notifications, parsing, the bar and the program's life, the clock, the
command and its refinement, the notifications' refinement, in that order.  To come:

1. Refinement: `WorkspaceSync` implements an abstract board; `Layout` implements one that
   replaces the layout as a whole.
2. The end of the event stream and disposal, when the code settles what they should do.
