# Verification of the compositor

This directory holds TLA+ models of the compositor in `src/` (a Wayfire-based
Wayland compositor with its plugins), the TLC configurations that check them on
small instances, and TLAPS proofs of the most important invariants for every
instance. Paths below are relative to `src/`, the root of the repository.

Contents: the system, the modules and how they correspond to the code, the
runs, bounds and fairness, the proofs, the divergences between code and
documentation, and what is left out.

## 1. The system

The compositor is one process with one thread and one event loop. Nothing in it
runs in parallel, and yet nearly everything interleaves, in three ways:

- **Re-entrancy.** A signal handler, a scene node's input handler or a
  transaction object may call back into the component that is calling it. The
  outer call goes on with indices, iterators and copies of state made before.
- **Asynchronous parties.** Clients answer late, out of date or never, resize
  themselves, and die at any point. Outputs are plugged and unplugged. Input
  methods and the X server are two more such parties. Timers and idle callbacks
  race with all of them.
- **Independent plugins.** Each plugin sees the same events and requests
  changes of the shared objects: outputs, views, workspaces, input focus.

### Components

| Component | State | Operations | Hard behaviour | What makes it correct |
|---|---|---|---|---|
| Transactions (`src/core/txn`) | objects, ready count and timer per transaction; the manager's pending, committed and done lists | schedule, coalesce, consider_commit, commit, ready, timeout, apply, clear done | `consider_commit()` re-enters itself while it holds an index into the vector; a timeout races the last client | one committed transaction per object, nothing lost, nothing starved, no freed frame |
| Xdg toplevels (`src/view/xdg-shell`) | pending, committed and current state; the awaited serial; the view's references | request, commit, apply, surface commit, map, unmap, destroy | late and skipped acks, client resizes, unmap and destruction during a transaction | ready only when answered, mapped as the surface is, never freed while mapped, seen where it was put |
| Xwayland (`src/view/xwayland`) | the same without serials, and what the X server was told | the same, and configure requests, association, change of type | the window loses its surface or its type inside a transaction | the same, and the X client knows where its window is |
| Pointer (`src/core/seat/pointer.cpp`) | focus, grabbed node, sent buttons, enable count | motion, buttons, focus updates, grab transfer, scene updates | node handlers change the scene in the middle of a focus change | matched presses and releases, matched enters and leaves, no stale focus or grab |
| Touch, tablets, keyboards, cursor (`src/core/seat`) | the node of each finger, tool and key; the current keyboard; a hide counter and what the cursor shows | device and input events, grabs, focus changes | `set_touch_focus()` calls nodes that change the map it indexes; a binding takes a press but not its release; a keyboard goes while keys are down | what a client takes to be pressed is pressed on it; the cursor shows again what it should |
| Keyboard focus (`src/core/seat/seat.cpp`, `src/core/window-manager.cpp`) | the focused output and node, the active view, when each node last had the focus | refocus, focus a view or an output, raise, minimize, move between outputs, unplug | lock screens, grabs, layer surfaces and views outbid each other; handlers refocus with the scene half changed | the focus is where a refocus would put it; a lock screen has it before anything else |
| Input methods (`src/core/seat/input-method-relay.cpp`, `plugins/protocols/input-method-v1.cpp`) | text inputs, the active context, serials, keys given back late | enable, commit, focus changes, an input method that comes, answers and dies | the input method answers after the focus has moved on | the focused text input is served, and no other; a waiting one is not forgotten |
| Bindings, hotspots, commands (`src/core/seat/bindings-repository.cpp`, `hotspot-manager.cpp`, `plugins/single_plugins/command.cpp`) | callback lists, one repeating and one waiting command, a timer per hotspot | add, remove, run, repeat, release | a modifier binding runs at a release; bindings change while one repeats | repeats exactly while held, fires once, a lone modifier is alone |
| Shortcuts inhibition (`plugins/protocols/shortcuts-inhibit.cpp`) | the inhibitors, the last focus, a counter | inhibitors come, go and are broken; focus | the focus and the flags change in any order | bindings are given up only for the focused surface |
| Output layout (`src/core/output-layout.cpp`) | configuration, current state and desktop of each output, the noop output and its timer, mirrors | plug, unplug, reload, output-management client, power management | the last output goes; the noop's removal is already scheduled; mirrors of outputs that vanish | always an output, focus and views on live outputs, live mirrors |
| Idle (`plugins/single_plugins/idle.cpp`) | the DPMS timer, the idle flag, the input connection, the inhibitors | input, timeout, inhibitor created and destroyed | one shared object, reconnected by each plugin instance; inhibitors while asleep | outputs put to sleep can be woken |
| Session lock (`plugins/protocols/session-lock.cpp`) | current and previous lock; per lock a state, a timer and per-output nodes | lock, surface, timer, unlock, client gone, output added and removed | the client dies while locking or locked, another takes over, outputs come in between | a locked session is covered everywhere and only its holder unlocks it |
| Plugin activation (`src/output/output.cpp`) | active plugins (a multiset), their capabilities, inhibition | activate, deactivate, cancel all, inhibit | capabilities change while active; cancel loops over what it removes | one holder of each capability |
| Workspace switching (`plugins/vswitch`, `vswipe.cpp`) | the running switch and its offset, the overlay view, the swipe's origin and phase | bindings, IPC, core requests, gestures, frames | a switch during a swipe, a swipe during a switch, inhibition during either | at most one wall, no jump, a swipe ends |
| Workspace sets and grids (`src/output/workspace-impl.cpp`, `wsets.cpp`) | which set an output shows, the views of a set and their workspaces, enabled counters | select, steal, send views, resize the grid, unplug | a set is stolen or orphaned while its views are shown elsewhere; a switch while a client owes an answer | what is shown is what is on the output; a view keeps its place |
| Layer shell and work area (`src/view/layer-shell`, `src/output/workarea.cpp`) | anchored areas in order, reserved zones | commit, arrange, map, unmap | requested and committed zones are read at different times | panels do not overlap and stay on the output |
| Dragging (`plugins/common/move-drag-interface.cpp`, `move.cpp`) | the shared drag, a grab per output, slots | start, motion, snap-off, drop, cancel | a drag spans outputs and loses its view | nothing of a drag is left behind |
| Tiling (`plugins/tile`) | trees of splits with integer sizes, a resize | attach, detach, drop, resize, new work area | rounding; views that leave a tree while it is flattened | tiles fill the area, a view is in the right tree once |
| Scale, switchers, expo (`plugins/scale`, `switcher.cpp`, `fast-switcher.cpp`, `expo.cpp`) | transformers, hidden and shown nodes, the chosen view or workspace | activate, choose, leave, every event of views | views are minimized, unmapped and moved while the plugin keeps what to restore | everything done to a view is undone |
| Rendering of outputs (`src/output/render-manager.cpp`, `src/core/scene.cpp`, `src/view/wlr-surface-node.cpp`) | damage, redraw counter, pending frame, render instances, visibility counts | damage, frame, idle callbacks, regenerate | idle callbacks run in order and once; listeners come and go between frames | a visible client gets its frame callback |
| Effects, decorations, cube, wobbly, IPC, loader, start and stop | | | | not modelled, section 8 |

### How they interact

`PROJECT.json` lists every component with its sources. The modelled ones are
connected like this:

- A plugin or the window manager writes a toplevel's pending state and schedules
  it with the **transaction manager**. The manager calls the **toplevel**'s
  `commit()`, waits for its ready signal, and calls `apply()`, which tells the
  view, which tells plugins, which may schedule again.
- A changed scene calls `on_root_node_updated` of the **pointer**, the
  **fingers** and the **tools**, which enter and leave nodes, whose handlers
  change the scene.
- A key goes through the **bindings repository**, which the **inhibitors** and
  the **lock** may have disabled, then through the **input method**, and only
  then to the focused node.
- The **output layout** creates and destroys outputs. Doing so moves focus,
  **workspace sets** and views and tells the **session lock** and the **idle**
  plugin. The idle plugin calls the layout to power outputs off and on.
- The **session lock** inhibits outputs, which cancels the **plugins active** on
  them, which ends a **workspace switch**, a swipe, an overview or a drag.
- **Panels** change the work area, which the **tiles** fill.
- The **scene** is damaged by all of them, and an output's next **frame** tells
  the clients to draw theirs.

## 2. The modules

| Module | Models | Built on |
|---|---|---|
| `ObjectUpdates` | what the transaction system promises: groups of objects that wait, run and finish as a whole | |
| `TxnManager` | `transaction_t` and `transaction_manager_t`; implements `ObjectUpdates` | `INSTANCE ObjectUpdates` |
| `XdgToplevel` | one Wayland toplevel, its view and its client; uses only what `ObjectUpdates` promises | |
| `XwaylandToplevel` | one X11 toplevel, its view, its controller and its client | |
| `PointerFocus`, `TouchFocus` | `pointer_t`, `touch_interface_t` and grabs | |
| `Cursor`, `TabletTools` | the cursor's picture and hide counter; tools of tablets | `TabletTools` extends `Cursor` |
| `SeatKeyboards` | keys from the keyboards to the focused node | |
| `SeatFocus` | which node has the keyboard focus and which view is active | |
| `InputMethodV1`, `InputMethodV2` | the two relays between text inputs and an input method | |
| `Bindings` | bindings, hotspots and the plugin command | |
| `ShortcutsInhibit` | the plugin that disables bindings for a surface | |
| `OutputLayout`, `IdleDpms` | the layout, the noop output, mirrors, power management; the idle plugin's power saving | `IdleDpms` extends `OutputLayout` |
| `TileTree` | the trees of simple-tile | |
| `SessionLock` | the lock plugin and its protocol | |
| `OutputPlugins`, `WorkspaceSwitch` | the active plugins of an output; vswitch and vswipe | `WorkspaceSwitch` extends `OutputPlugins` |
| `WorkspaceSets`, `WorkspaceGrid` | sets and the outputs that show them; places of views on a set's grid | |
| `LayerShell` | panels and the space they reserve | |
| `MoveDrag` | the shared drag and the move plugin | |
| `Frames` | frames, render instances and frame callbacks | |
| `Scale`, `Switcher`, `Expo` | the overviews | |
| `MCToplevels`, `MCSeat`, `MCPlugins`, `MCSession`, `MCDesktop`, `MCOverviews` | values of constants, symmetry and the parts of a run for TLC | the modules of their parts |
| `ObjectUpdatesProofs`, `TxnManagerProofs`, `ToplevelsProofs`, `SeatFocusProofs`, `SeatProofs`, `SessionProofs`, `OutputsProofs`, `DesktopProofs` | proofs | the module of the same name and TLAPS; `SeatProofs` on `SeatFocusProofs` and `MCSeat`, `SessionProofs` on `MCSession`, `OutputsProofs` on `MCOverviews` and `IdleDpms` |

Definitions keep the source's names where TLA+ allows it, and `PROJECT.json`
gives the lines each one stands for. A definition whose comment begins with
"Mutant" is a plausible wrong version of the definition next to it. The
specifications do not use it; it shows that the properties can fail.

**Parts.** An `MC` module checks several modules in one run. Its variable `part`
is chosen in the initial state and says which of them moves; the others stay in
one of their initial states. The state spaces therefore add up instead of
multiplying. This loses nothing where the modules share no state, which is so
except where a module extends another one (those are one part). An invariant of
such a run is the conjunction of what each part has to keep.

### What a step is

Each model has as many steps as the code has points where control can pass to
somebody else, and no more.

**`TxnManager`.** The variable `stack` is the C++ call stack, innermost call
first. Its frames are activations of `consider_commit()`, with the loop's index,
and of `transaction_t::commit()` and `apply()`, with the objects still to visit.
The code inside one iteration is one step. A ready signal emitted inside
`commit()` pushes an apply frame above the commit frame that caused it, and
`ApplyEnd` replaces the apply frame by the activation of `consider_commit()`
that `on_tx_apply()` makes. Nesting is unbounded by construction; it ends
because transactions do. `InEventLoop` is the empty stack. Objects are opaque:
they may answer inside `commit()` (`CommitReadyObject`), later (`ClientReady`)
or never. Transactions are numbered in the order in which they are scheduled, so
the vector `pending` is the set of its members and an index is a count.

**`XdgToplevel`.** A Wayland request is handled in up to three steps, because
wlroots emits map or unmap before commit and each may start a transaction:
`ClientCommit`, the transaction's steps, then `HandleSurfaceCommit`. A toplevel
that is alone in its transaction (`queued = "own"`) is committed inside the call
that schedules it (`Due`). One that is `"shared"` waits for as long as the rest
of its group. Configure events are the four fields of `conf`: the last serial,
the one scheduled for the end of this iteration of the event loop, those sent
and not acknowledged, and whether the surface is initialised. A size is one
width. The variables `asked`, `anchor`, `ignored` and `late` record history and
no action reads them to decide what the code does.

**`XwaylandToplevel`** has the same transaction steps. Instead of serials, a
surface commit with the awaited size is the answer. `told` is the geometry that
the X server was last given. The output may move under a window (`offset`). A margin
is that of the left side, where it also moves the content.

**`PointerFocus` and `TouchFocus`.** `todo` and `touchCalls` are the rest of the
active calls, innermost first. A `handler` or `node` entry is control in a
node's own code, which may change the scene, start a grab or transfer one, as
often as the bounds on reactions allow during one event. `under` is what
`find_node_at()` returns, and changes only with the cursor or the scene.

**`Cursor` and `TabletTools`.** Each function of `cursor_t` is an operator from
a state of the cursor to the next one, since handlers call several in one event.

**`SeatKeyboards`.** A key event is one step: bindings, then the input method's
grab, then the focused node. What a client takes to be pressed (`down`) is kept
apart from what the seat has recorded.

**`SeatFocus`.** `Best` is `keyboard_refocus()` over the scene, front first.
`recent` is the order of the nodes' time stamps, `newest` the layer surface that
had the focus last. Handlers are operators from state to state, as they call each
other, and loops over views or lock screens are a fold of such an operator
(`Folded`); `unseen` says that views or layer surfaces changed without a refocus.

**`InputMethodV1` and `InputMethodV2`.** The client, the compositor and the
input method each act on their own. Done events that the input method has not
answered yet wait in a sequence.

**`Bindings`.** `cmd` is the state of the plugin command: the repeating binding
with its timer, and the one that waits for a release. A hotspot is armed,
waiting for its timer, or spent; changing any binding makes all hotspots anew in
an idle call. **`ShortcutsInhibit`** is one step per signal.

**`OutputLayout`.** Every change goes through `apply_configuration()`, which
runs to its end inside one event; it is one operator, `ApplyConfiguration`, and
each way to reach it is an action. Its inner order is kept where it shows: the
noop first, then the outputs that go (focus, then views), then those that come,
then mirrors. **`IdleDpms`**: all instances of the plugin share one object.
`listening` is the number of times its input handler is connected, which is more
than one after an inhibitor has gone, because each instance connects it.

**`TileTree`.** A tree is a record with children; the C++ algorithms are
recursive functions over it. Each signal handler of the plugin is one action, to
its end: removal, flattening and the new sizes.

**`SessionLock`.** A handler is one step. `surface` and `crash` are the two
nodes a lock may have in an output's LOCK layer. A freed lock object may be used
again, so the number of locks over time is not bounded.

**`WorkspaceSwitch`.** `ws + offset` is what the wall of a switch shows. A
gesture is its begin, the recognition of its direction, its end and the frame on
which its animation is over. `SwipeEnd` computes the workspace as
`vswipe_finish_target()` does, in hundredths of a workspace.

**`WorkspaceSets` and `WorkspaceGrid`.** The first has the sets, their outputs
and the counters that enable nodes; the second has where views are on one grid,
in one dimension, with a view that is `busy` while its client owes an answer.

**`LayerShell`.** A commit that changes something arranges all surfaces of the
output in one step, as `arrange_layers()` does; one that does not, arranges
nothing. A request has changed something if it differs from what is current when
it is committed, as in wlroots, so that it may be taken back before; `other`
stands for the requests that are not modelled. `ArrangeZone` goes by the request,
and by the committed zone for its size; `strayed` records that the two differed.
**`MoveDrag`** has one step per input event and one per event of the dragged view
or of the outputs. An instance that is active is asked no more whether its output
is inhibited, so that the lock screen, too, ends a drag in order.

**`Frames`.** `idle` is the queue of idle callbacks in the order of their
registration. An output paints in one step, and its page flip comes later.

**`Scale`, `Switcher`, `Expo`.** `root` and `node` are the counters that enable
a view's nodes. Handlers that call each other while the state is half changed
are operators from state to state, composed as the calls are.

## 3. The runs

Passing runs:

| Run | States | Shows |
|---|---|---|
| `txn_manager` | 2,330,000 | Four transactions over two objects, through every nesting of commit, ready, apply, timeout and schedule. Committed and pending transactions exclude each other inside callbacks too (`CommittedExclusive`, `PendingExclusive`); a stale index forgets nobody (`NoMissedCommit`); frames never outlive their transaction (`FramesAlive`); the count of ready objects stands for the set (`AppliedWhenAllReady`); merging loses no update (`NoLostUpdate`); the manager implements `ObjectUpdates` with its fairness, so that every update starts and finishes without any help of a client (`ImplementsUpdates`). |
| `toplevels` | 2,517,528 | Clients that resize, unmap, remap, answer late, skip configures and die, on Wayland and on X11. The view is mapped as the surface is (`ViewsMapped`), is not freed while mapped (`ViewsLive`) and is freed in the end (`ViewFreed`); between transactions it is seen where it was put (`ViewsPlaced`); it is ready once and only when answered (`ReadyMeansAnswered`). |
| `seat` | 2,120,000 | Eleven parts. No client's grab outlives its reason (`GrabHasReason`); no event goes to a node that is gone or not under the cursor, no text input but the focused one is served, and one that waits for an input method is not focused (`FocusRight`); buttons, fingers, keys and enters are paired for each client (`PressesPaired`); the fingers that are counted are those on the screen (`FingersKnown`); the cursor is hidden exactly while somebody wants it to be (`CursorShown`); bindings run as often as they should (`BindingsRight`); the keyboard focus is on a node that is there and is what a refocus would choose, the lock screen's while the output is locked, and one toplevel looks activated (`FocusGiven`). |
| `plugins` | 246,214 | Two outputs plugged, unplugged, disabled, mirrored and powered off in any order, under the idle plugin: there is always an output, and the focused one exists (`OutputRemains`); views and mirrors are on live outputs (`NothingStranded`); sleeping outputs can be woken (`CanWake`). Tiles: the leaves of each tree fill its area without overlap after every event (`TilesFill`), and a view is in exactly the tree of its set and workspace (`TreesRight`). |
| `session` | 26,800 | Clients that lock, destroy surfaces, die and are replaced while three outputs come and go (`LockedEverywhere`, `OwnedLocks`, `NothingLeft`, `OnlyUnlockLifts`), and a request to lock is answered within the timer (`LockingEnds`). Bindings, IPC calls, core requests and swipes on three workspaces: one holder per capability (`CapabilityExclusive`), a wall exactly while its plugin is active (`WallsMatch`), no jump (`NoJump`), a swipe ends (`SwipeEnds`). |
| `desktop` | 1,060,000 | Five parts. What is enabled is what its output shows, through sets that are stolen, orphaned and collected (`SetsShown`); a view keeps its workspace through switches and shrinking grids (`KeepsPlace`); panels lie apart and inside what the ones before left (`PanelsPlaced`, but see section 7); nothing of a drag is left (`DragLeavesNothing`); a client whose surface is visible gets the frame it waits for (`ClientsServed`). |
| `overviews` | 235,635 | Whatever scale and the switchers do to a view is undone, however they end and whatever the view does meanwhile, and expo goes to a workspace of the grid and leaves no key held (`OverviewsUndo`). The ring of thumbnails is whole (`RingWhole`). |

Every property of a passing run has a mutant in `PROJECT.json` under which the
same run fails; a property that joins several parts names them in its definition.

Runs that find a violation, each of a sentence of the code or its documentation
(section 7): `v1_stuck_key`, `im_stale_commit`, `frame_callback`, `swap_order`,
`strayed_panel`.

`CHECK_DEADLOCK FALSE` is set for the transaction and toplevel runs only: there
the behaviour really ends when the bound on transactions or serials is used up
and everything has finished. In the other modules something can always happen.

Larger instances that were checked without an error and are left out for their
size: three objects with three (661,540 states) and four transactions
(28,389,993); the switcher alone with three unrestricted views (4,380,992);
X11 alone with both requests and moving outputs (6,161,000).

## 4. Bounds

- **`Objects`, `MaxTx`** (transactions): two objects and four transactions are
  the least with which one committed transaction blocks two pending ones that a
  fourth merges, which is what makes a stale index possible. No symmetry is
  used, because a refinement with fairness is checked.
- **`Widths`, `OutputWidth`, `Requests`** (toplevels): two client sizes, a
  floating request with a margin and right gravity, whose inner size both
  differs from and equals a client's, and a fullscreen one. **`MaxSerial`** 3:
  the initial configure, the one a transaction waits for, and one after that, so
  an old answer can arrive for a new question. **`Modulus`** is above it: serials
  do not wrap. X11 windows stay near the screen (`IsHere`, `IsNear`), since a
  client may walk its window away without end; an output is at one of two
  **`Offsets`**.
- **`Nodes`, `Buttons`, `Fingers`, `Tools`** (seat): a client, a decoration that
  reacts, a plain and a raw input grab; two buttons, fingers and tools, so that
  one can be held across another. **`MaxReactions`** 2 and
  **`MaxTouchReactions`** 1 scene changes per event.
  **`MaxDisabled`** 1 tablet tool. **`MaxPressed`** 2 keys of two, on two
  keyboards, one of them the input method's.
- **`SeatOutputs`**, **`SeatViews`** two each, one of **`Bars`** (keyboard focus):
  in one part two views alone (`TwoViewsOnly`), in the other a view with a layer
  surface, a grab and lock screens (`OneFocusable`). Each part was also checked
  alone without these restrictions. An output has two workspaces.
- **`MaxDones`** 3, **`MaxUnanswered`** 2 (input methods): done events that are
  under way at once; two are needed for a stale answer. Three text inputs of two
  clients on two surfaces.
- **`AllBindings`** (commands): a key, a lone modifier, a button with two
  bindings, a gesture and a hotspot, over the three modes, always or not, of the
  configuration and of an IPC client. `BoundedLeak` stops when the counter of
  disabled bindings has been forgotten twice.
- **`Outputs`** (layout): two, so that one can mirror, replace or outlive the
  other. **`MaxInhibit`** 1 bounds the render counter by the actions' guard;
  **`MaxInhibitors`** 2.
- **`TileViews`** three on two sets, grids of at most **`MaxTileGrid`** 2, two
  work areas. `LargeTiles` leaves out tiles that rounding has made 0 pixels wide
  (section 7). In the part "layout" there is one workspace; in "places" two views.
- **`Outputs`, `Locks`** (session lock): three outputs, so that a lock may have
  one covered by a surface, one by a crashed node and one just added; two lock
  objects, the most that can exist at once (`OwnedLocks`), reused for ever.
- **`Width`, `Distances`, `MaxActivations`** (switching): three workspaces have
  both ends and a middle. The distances lie on both sides of the threshold, of
  one workspace and of the grid's end.
- **`MaxSets`** 3 over two outputs (sets): two shown and one hidden.
  **`MaxDrift`** 2 bounds how far counters of a view may go wrong.
  **`MaxGrid`** 3, **`MaxX`** 10 and two screen widths (grid).
- **`Panels`** 2 on one edge with zones that reserve, ignore and respect others;
  **`DragViews`** a view and its dialog; **`MaxRedraw`** 1 (frames) bounds the
  redraw counter by the guard.
- **`SwitchViews`** 3, the least for which the ring has a view in no slot;
  **`ScaleViews`** 2; **`MaxExpoGrid`** 3. `FewElsewhere` and `Scaled` keep the
  product of the views' own states small: one view at a time is away.

## 5. Fairness

Fairness is assumed only of what the event loop does by itself:

- a call that has been made returns (`CallStep`, `HandleSurfaceCommit`,
  `DestroyEnd`, `ApplyEnd`);
- an armed timer fires (`TimerFires`, `LockTimer`);
- an idle callback runs (`IdleClearDone`);
- in `XdgToplevel`, the transaction system starts what waits and ends what runs.
  `Commit` and `ApplyState` may be assumed because `ObjectUpdates`' own
  fairness says so and `ImplementsUpdates` checks that the manager provides it;
- in `WorkspaceSwitch`, fingers are lifted some time and the output has frames.
  Animations keep asking for frames while they run.

All of it is weak fairness. No client, user or plugin is ever assumed to act:
updates finish with clients that never answer, and `LockingEnds` holds with
clients that never create a surface. The other modules state safety only.

## 6. What is proved

The proofs hold for every value of the constants; they rest on the `ASSUME`s of
the modules and on nothing else, but for two hypotheses that some theorems state
themselves (`ReactToForced = {}` for the pointer, `MaxSerial < Modulus` for the
serials of configures). All are checked by `tlapm` to the last leaf.
Every inductive invariant below was first checked by TLC on the run's instance.

| Component | Theorems | Inductive invariant |
|---|---|---|
| `ObjectUpdates` | `UpdatesExclusive` | types and `Exclusive` |
| `TxnManager` | `CommittedNeverConflict`, `PendingNeverConflict`, `UpdatesNeverLost`, `FramesNeverDangle`, `NothingAppliedEarly`, `NothingPassedOver`, `ManagerUpdatesGroups` | `Inv`, `CallInv`, `ScanInv` |
| `XdgToplevel` | `ToplevelRight`, `ReadyAnswered` | `XdgInv` |
| `XwaylandToplevel` | `XToplevelRight` | `XwInv` |
| the toplevels as a whole | `ToplevelsMapped`, `ToplevelsLive`, `ToplevelsPlaced`, `ToplevelsReadyAnswered` | the conjunction |
| `SessionLock` | `LockTyped`, `LocksAreOwned`, `AlwaysCovered`, `UnlockedIsClean`, `UnlockOnlyByHolder` | `IInv` |
| `OutputLayout`, `IdleDpms` | `LayoutHasOutput`, `LayoutStrandsNothing`, `SleepersWake`, `PowerSavingStrandsNothing` | `LayoutInv`, `IdleInv` |
| `OutputPlugins`, `WorkspaceSwitch` | `OnePluginPerCapability`, `WallsMatchPlugins`, `WallNeverJumps`, `WallStaysInGrid` | `WallInv` |
| lock and switches as a whole | `SessionRight` | the conjunction |
| `PointerFocus` | `PointerRight` | `PointerInv` |
| the other parts of the seat | `TouchRight`, `CursorHiddenByNeed`, `ToolsInScene`, `KeysMatch`, `ContextIsCurrent`, `WaitingApart`, `BindingsEnd`, `InhibitionFollows` | one for each part |
| `SeatFocus` | `SeatFocusRight` | `SeatRight` |
| the seat as a whole | `SeatShowsCursor`, `SeatKnowsFingers`, `SeatEndsBindings`, `SeatGrabHasReason`, `SeatPairsPresses`, `SeatFocusesRight`, `SeatGivesFocus` | the conjunction of the parts' |
| `MoveDrag` | `DesktopEndsDrags` | `DragInv` |
| `WorkspaceGrid` | `DesktopKeepsPlaces` | `GridInv` |
| `WorkspaceSets` | `DesktopShowsSets` | `WsInv` |
| `Frames` | `FramesRight`, `DesktopServesClients` | `FrameInv` |
| `Scale`, `Switcher`, `Expo` | `ScaleAlwaysUndoes`, `SwitchersAlwaysUndo`, `ExpoAlwaysRight` | `ScaleOK`, `SwitchersOK`, `ExpoInv` |
| the overviews as a whole | `OverviewsUndone` | the conjunction |

**Transactions** (`ConstantsAssumption`: a finite set of objects, a natural
bound). `Inv` is the types with `Scheduled`, `CommittedExclusive` and
`PendingExclusive`. `Scheduled` says that what waits or runs has a number that
was given out; without it a new transaction could overwrite the objects of an
old one. `CommittedExclusive` needs no knowledge of the stack: `ConsiderCommit`
looks at `committed` when it commits, and this is why stale indices are harmless
to it. `PendingExclusive` rests on the lemma `CoalescedAbsorbs`: the result of
coalescing contains every pending transaction it touches.

The other three invariants of the run speak of the calls that are active, so
that what they rest on ranges over every frame of the stack and not only over
the top. `CallInv` is the conjunction of `Inv` and six parts. A number is in one
of the manager's lists at a time (`Places`). Before it is committed, a
transaction has connected nothing and counted nothing (`Untouched`). A frame of
a given function appears once per transaction (`Once`). A commit frame belongs
to a transaction that is committed or done, and has nothing left to visit once
that is over (`CommitsRight`); an apply frame belongs to a committed one, and
what it has yet to apply is committed and, unless the timer fired, answered
(`AppliesRight`). `Progress` is about the counter: while a transaction waits,
`count_ready_objects` is the number of its objects that were listened to and are
no longer awaited, and every object not yet listened to is still ahead of a
commit frame; once it is over, nothing of it is connected. With it, an object
cannot answer for a transaction that was applied, and `all_ready` is reached once.

`ScanInv` says that each pending transaction that could be committed is covered:
some frame of the stack is an `apply()` or a `consider_commit()` whose index has
not passed it. That is what makes the index that another activation leaves stale
harmless: a transaction becomes free only in `apply()`, which calls
`consider_commit()` again from 0.

`ManagerUpdatesGroups` is the safety part of the refinement: the manager's
initial states and every step of it are an initial state and a step, or a
stutter, of `ObjectUpdates` under the mapping of `TxnManager`. Each kind of step
has a lemma that names the abstract action.

**Toplevels** (`WidthsAssumption`, `SerialsAssumption`, `RequestsAssumption` and
their X11 counterparts with `PlacesAssumption`: widths are positive, requests are
records of the fields that `toplevel_state_t` has). Both invariants say what each
of the three states (pending, committed, current) holds of the client at each
point of a transaction. For Wayland: what a client can still ack is newer than
what it acked (`Serials`); an object that waits was not ready and waits for the
serial that was asked (`Answers`); what is mapped in each state, and that the
view holds itself while a state that is on its way still shows it (`Mapped`);
which edge was placed (`Edges`); and which size is drawn (`Sizes`), which holds
only while the client is `Settled`: its commits are not ignored and it is not
late. `ReadyMeansAnswered` needs `NoWrap` (`MaxSerial < Modulus`): the
transaction compares serials that have passed through 32 bits. For X11,
`XHeld`, `XSizes` and `XEdges` are the same, with one case more: a state that says mapped may
be applied when the window has no surface any more (`unmapLost`), and the view is
then not mapped until the next one is.

**Session lock** (`LocksAssumption`: `None` is not a lock). `IInv` is
`TypeOK /\ OwnedLocks /\ Timers /\ Layers /\ Inhibited`. That a locked session
is covered depends on which nodes each lock has in each state (`Layers`), so
that the death of a client, which removes its surfaces, leaves a node behind
that can be shown. That an output is given back only by the holder depends on
every output being inhibited exactly while some lock is LOCKED or ZOMBIE
(`Inhibited`), on there being no other lock beside a LOCKED one (`OwnedLocks`),
and on the timer running exactly in state LOCKING (`Timers`).

**Outputs** (`IdleAssumption`: finitely many outputs; the noop output and `None`
are none of them). `LayoutInv` adds to the run's invariants that the noop's
timer runs exactly when it is about to be removed (`NoopTimerRight`), and that
an output that is not plugged in has no state left (`Forgotten`). The whole of
`apply_configuration()` has one lemma, which every handler then cites. `IdleInv`
adds `Connected`: with an inhibitor the plugin has nothing connected and no timer,
and without one, when it is idle or its timer runs, it listens to input.

**Workspaces** (`SwitchAssumption`: `vswitch` and `vswipe` are two plugins; what
`vswipe` declares, `vswipe.cpp:98`; grids have at least one workspace). `WallInv`
relates three modules' state: the plugin that is active, the wall that is shown
and the phase of a swipe or a switch. The end of a swipe needs the arithmetic of
`vswipe_finish_target()`: the workspace that it chooses is in the grid, and the
wall goes to it from where it is.

**The seat.** Each part has an invariant of its own over its own variables.
Most important is the pointer's. `PointerInv` is about the whole stack of calls
that are active: which call can wait below which (`update_cursor_focus()` below
`send_leave()` below a node's handler, for instance), what the node that is
being left has been told, and which call still has to run wherever the focus or
the grab is not yet what it should be. `PointerRight` and the three theorems
`SeatGrabHasReason`, `SeatPairsPresses` and `SeatFocusesRight` assume
`ReactToForced = {}`: no node changes the scene when it gets a synthetic button
release. This is not proof engineering. With a node that does, `transfer_grab()`
goes on with a focus that has changed under it, and `GrabIsEntered` says what is
violated then (section 7). `Seat.cfg` has the same value.

For touch, the invariant says which calls can be active on the way to
`set_touch_focus()`; that a text input waits for an input method
(`WaitingApart`) rests on a property of the recursive function that models the
loop over the text inputs, proved by the lemma `SetInduction` (a set of naturals
that has 0 and the successor of each of its members is `Nat`, from the least
element that well-foundedness gives); `KeysMatch`
compares what each client was sent with what the seat recorded, for each node and
key; `BindingsEnd` needs to know which binding waits for which input and that
keys and buttons are different (`BindingsAssumption`). The picture of the cursor
that stands for "hidden" is none of a client's (`CursorAssumption`).

**The keyboard focus** (`SeatFocusAssumption`: outputs, views, layer surfaces and
the grab's node are different things, `Nothing` is none of them, and outputs and
layer surfaces are finitely many). `SeatRight` is `WellFormed`, `BarsMapped` and
`FocusHeld`. `WellFormed` is the types; that what was focused, the views and the
layer surfaces are each in their order once; that every mapped view is in the
stack and on some output; and that one toplevel is
activated. `FocusHeld` is the rest of the run's invariant, said of any state of
the seat and not only of the one between two events, because handlers call each
other with the seat half changed: each handler has a lemma that takes it from
such a state to such a state.

The heart of it is what a refocus finds. The loop over the scene is a recursive
function, and a lemma says which node it ends with without the loop (`IsBest`):
of the nodes that offer themselves and that nothing above them blocks, none is
more important than the one that is found, and of those as important none was
focused later; on a tie it is the one in front. From this follow the lemmas that carry the proof: the
node that a handler has just given the focus is the one that a refocus would
find, bringing a view to the front or freeing a node that has no focus changes
nothing, and a lock screen of the focused output comes before anything. The two
other loops, which free the lock screens and which move the views of an output
that is unplugged and close its layer surfaces, are runs of such handlers, and
an invariant of each round says which views and surfaces are still to be done.

`SeatProofs` then proves the invariants for `SeatSpec`, which the run checks:
`SeatMoves` says that a step of it is a step of one part in which the others
stutter.

**Dragging** (`DragAssumption`: `NoView`, `Nowhere` and `NoSlot` are no view,
output or slot). `DragInv` is `DragTypes`, `DragWhole`, `MoversRight` and the
run's invariant. The dragged view is among those that are dragged along
(`DragWhole`). An instance of move that has the input is loaded and not
inhibited, so that it hears of the end of the drag, and only such an instance
shows a slot, none while the view is held (`MoversRight`).

**Places on the grid** (`GridAssumption`: widths and the grid are positive).
`KeepsPlace` compares a view's workspace with the one it was put on, clamped to
the grid. `GridInv` says why it holds: the history variable `place` is exactly
the workspace of the centre of the view's pending geometry, and the geometry is
the pending one unless the client owes an answer. A change of workspace moves
views by whole screens; what this does to the division by the screen's width is
in the lemmas `DivUnique` and `DivShift`. A change of the screen's size scales
where views are and puts them anew.

**Workspace sets** (`WsetsAssumption`: at least one set, `NoOutput` and `NoSet`
are no output and no set). The operations of `workspace_set_t` are operators on
sets of views, so that the proof needs no folds. `WsInv` is `SetsWhole` and
`SetsHeld`. `SetsWhole` says that a set's output exists and shows no other set
where it is visible (`SetsAgree`), that a view is in the set it takes for its
own and its output is that of one of its sets (`ViewsHeld`), and, for views that
were never in two sets, that they are in no other (`InOneSet`), and, for those
that were never always on top either, that they are under that set's node and
enabled by what is mapped less what is minimized (`UnderSet`). `SetsHeld` says
that the sets of the outputs are among the available ones and that a set that is
not has no views: dropping its record strands nothing. `LowestFree` is about `choose_lowest_free_wset_id()`: there is a least free index. Selecting, stealing and swapping sets, sending
views and the loss of an output have a lemma each.

**Frames** (`FramesAssumption`: outputs and surfaces are finitely many, so that
the loops over them end). `FrameInv` is `Right` of the present state; `Right` can
be said of any state, so that each handler has a lemma that takes one such state
to another. It has five parts.

- `Drives`, about an output: a frame is pending exactly while a page flip or the
  repaint timer is to come; one that is registered as an idle callback is owed;
  and an output that works and owes a frame has one of the two.
- `Counts`, about a surface and an output: `visibility` plus the changes that
  wait is 1 exactly where there is an instance, and changes that wait have a
  callback that is registered. `EnteredWhereShown` is what is left of this when
  no callback waits.
- `Entered` and `Awaited` say what an output owes: where a surface was not
  entered yet, it must paint, so that the frame comes after the idle callbacks
  that make the client known; where a client waits, a paint or a flip is to come.
- `ShownRight`: the instances are those that the scenegraph would generate now.
- `WithinHome`: with a `limit_region`, a surface is exposed only at home.

The idle callbacks run in a loop. What holds before a round is `Served(f, R)`,
where `R` is the set of the calls that are still to be made; each of the three
kinds of call has a lemma that takes it from `R` to `R` without that call. All
loops (this one, those over the outputs that repaint or regenerate their
instances, and those over the surfaces that are entered or left) are recursive
functions; `RoundsExist` proves by `SetInduction` that such a function exists, and
`LoopRuns` that it keeps what each round keeps. The removal of an output needs
the most: its instances are forgotten by the surfaces, regenerated and cleared in
this order, and what is then left to be counted for it is at most 0 and has a
callback (`LeftCounted`), so that `update_pending_outputs()` ends with 0.

**The overviews** (`ScaleAssumption`: `NoScaleView` is no view;
`SwitcherAssumption`: finitely many views; `ExpoAssumption`: a positive bound on
the grid). The theorems about scale and the switchers are stated twice: for each
of them alone, where any number of views may be minimized or elsewhere, and for
`OverviewsSpec`, whose guards keep TLC's instance small.

`ScaleOK` is `Sound` and `Wired`. `Sound` says that a view's root node is
enabled as often as the view asks for and once more if scale showed it although
it was minimized, that its transformed node is enabled unless the filter hides
it (but for views that scale forgot while it hid them, `dark`), and that scale keeps an animation or a mark only of views it has
transformed. `Wired` says that the signals are connected exactly while scale is
active, and that without the frame hook it is not active and keeps nothing. `Sound`
alone holds inside a handler too, so that the handlers' parts (`finalize()`, the
filter, the layout) have lemmas about any record that is `Sound`.

`SwitchersOK` says the same of root nodes (`Rooted`), that a switcher that is
not initialized has left a transformer only on views that went to another
output, and, of the fast switcher (`FastOK`), that no view is in its list twice,
that its index points into the list at the one view that is opaque, and that
what has its transformer is in the list or lost. The arithmetic of
`cleanup_view` is in `FastWithoutOK`: the view before the index may be the one
that goes, and the list wraps. `OneRemoved` is about a list without one of its
elements, `OrdersAll` about the order in which views were focused.

`ExpoInv` is `ExpoRight` with the types, which say that the output's workspace
is in its grid. `LeaveKeeps` is shared by every way out, `Wraps` is the
arithmetic of the arrow keys.

**What the attempts showed.** Four definitions of handlers had `CASE` arms that
overlap, of which TLC takes the first that holds and a proof may use any: in
`Frames`, `XwaylandToplevel`, `SessionLock` and `InputMethodV2`. They are
disjoint now, in the order of the code's tests. `ObjectUpdates` lacked
parentheses around a quantified disjunct. `Frames` did not say that its outputs
and surfaces are finitely many, and its idle callbacks were taken out of their
queue by `SelectSeq`, about which nothing can be proved: `Dropped` removes the one
that is there.

**Only model-checked.**
- Liveness (`LockingEnds`, `SwipeEnds`, `ViewFreed`) and the fairness part of
  `ImplementsUpdates` need reasoning about ENABLED, which the prover does not do.
- `TilesFill` and `TreesRight` are about what recursive functions over trees
  compute, which would need induction over data.
- `PanelsPlaced` and `RingWhole` are about what folds and `SelectSeq` make of a
  whole list. A general lemma about one of these would take an operator as its
  parameter, which the provers cannot instantiate. The recursive functions that
  are proved about (`Best` and the loops of `SeatFocus`, `SetTextFocusWalk`, the
  loops of `Frames`) have their steps given as functions, which are values, and
  an induction of their own, by `SetInduction`.

## 7. Divergences

Disagreements between the code and a sentence of the repository, and behaviour
that a reader would not expect, as they came up while modelling. Those with a
run are in `PROJECT.json` under `findings`.

Shown by a run:

1. **A key stays pressed** (`v1_stuck_key`).
   `plugins/protocols/input-method-v1.cpp:73`: "For the other keys (where we
   potentially swallowed the release event, but the IM did not respond yet with a
   release), release those keys." A key that the client got before the keyboard
   was grabbed, and whose release the grab swallowed, is in no list.
2. **A stale commit is applied** (`im_stale_commit`).
   `src/core/seat/input-method-relay.cpp:78`: "we simply ignore commits which do
   not acknowledge the newest done event from the compositor." The serial is
   recorded before it is incremented, so that a commit for the done event before
   the newest one passes.
3. **A visible client waits for its frame** (`frame_callback`).
   `src/view/wlr-surface-node.cpp:389`: "send wl_surface.frame on output frame".
   The listener is connected in an idle callback after the first paint; when the
   instances are generated anew before that frame's page flip, nobody listens.
   `ClientsServed` excludes exactly this case (`missed`).
4. **A swap does not trade places** (`swap_order`).
   `plugins/tile/tree-controller.hpp:33`: "Insert by swapping with the source
   view". The index of the second view is taken before the first one is removed
   (`tile-dragging.hpp:180`), so that views of one split may end up elsewhere. The
   run `plugins` leaves these swaps out (`NearSwap`), as `TilesFill` fails after them.
5. **A panel loses its space** (`strayed_panel`).
   `src/view/layer-shell/layer-shell.cpp:321`: "First we need to put all views
   that have exclusive zone set." Line 325 goes by the zone that is requested. If
   a panel asks for none, another surface's commit arranges the output, and the
   panel asks for its old zone again, then its commit changes nothing and arranges
   nothing (line 551): it keeps an exclusive zone without an area. The other way
   round, a surface that only asks for a zone gets an area as large as the one it
   has, which may be 0 or -1, and keeps it if it takes the request back.
   Surfaces that were arranged while they asked for another zone than they had
   are `strayed` until they are arranged again. `PanelsPlaced` does not ask these
   to have the right area, nor what comes after an area of -1 to lie apart.

Stated by a property that is in no run, and found violated by TLC:

- **A transferred grab is not entered** (`GrabIsEntered` of `PointerFocus`, with
  nodes that act on synthetic releases, `ReactToForced = {decoration, grab}`).
  `src/core/seat/pointer.cpp:131` says "Send pointer_enter to the grab". The
  synthetic releases sent before may end the grab, after which
  `send_enter_to_focus()` finds no focus (line 150).
- **A decorated X11 window creeps** (`UsesOldPlace` of `XwaylandToplevel`, with the
  values of `Toplevels.cfg`). `src/view/xwayland/xwayland-toplevel-view.hpp:63`:
  "Use old x/y values". They are those of the frame, which `configure_request()`
  takes for the content's and expands by the margins (line 154): each request of
  the client moves the window by its margins.

### Transactions and toplevels

- `src/api/wayfire/txn/transaction-manager.hpp:32`: "a transaction will never be
  started immediately." `schedule_transaction()` calls `consider_commit()` itself
  (`src/core/txn/transaction-manager-impl.hpp:37`).
- `xdg-toplevel.cpp:165` compares 32-bit serials as integers; after a wrap an old
  answer ends the wait. Line 164 asks "TODO: handle overflow?".
- A toplevel whose client resized itself while waiting is applied without a
  configure and shows a buffer of another size until the client's next commit
  (`xdg-toplevel.cpp:181`), while `src/api/wayfire/toplevel.hpp:81` says "The main
  surface's buffers contents correspond to the current state". `ShownAsPlaced`
  excludes this case (`ignored`) and a timeout (`late`).
- Xwayland: a window that is unmapped while its map transaction runs, and mapped
  again while the unmap waits, is not mapped until its next unmap; `XMapFollows`
  excludes this case (`unmapLost`). `handle_surface_commit()` moves the committed
  state without its margins, so that the position drifts inside a transaction.
  `set_main_surface()` overwrites all sizes; a configure request before the map
  writes a pending position that a running transaction discards; a client that
  asks for a size, never draws it and has right gravity walks across the screen.

### Input

- `check_implicit_grab()` starts a grab only when one button is down
  (`pointer.cpp:246`), so a button pressed while another one was consumed by a
  binding grabs nothing. `src/api/wayfire/scene-input.hpp:138`: "When a node
  consumes a button event, core starts an *implicit grab* for it."
- `transfer_grab()` ignores the enable count (`pointer.cpp:128`), so a plugin
  grab takes the focus of a disabled pointer. `pointer.hpp:37`: "When a logical
  pointer is disabled, it means that no input surface can receive pointer focus."
- `scene-input.hpp` says of `handle_touch_up` "It is guaranteed that the finger
  will have been pressed on the node before." It does not hold of a grab that
  takes fingers over; `UpsHaveDowns` in `TouchFocus` states it and is in no run.
- `input_device_removed` is emitted before the device is erased
  (`input-manager.cpp`, `handle_input_destroyed`), so that a handler that asks for
  the devices still finds it: pads stay attached to the tablet that is freed and
  the seat keeps the capability of its last device. This is why pads are not
  modelled.
- Removing a keyboard that is not the current one clears the current one all the
  same. A modifier binding runs although a key was pressed meanwhile on another
  keyboard. `seat-impl.hpp:78` calls the pressed keys "Keys sent to the current
  keyboard focus", which those that a plugin took are not.
- A release that went to the grab of an input method (v2) which then dies leaves
  its key recorded as pressed.
- Input method v2: an enable that arrives after the leave activates the input
  method for a text input without focus, and the later disable is ignored; of
  several waiting text inputs only the first is entered when an input method
  connects. Input method v1: inputs created after the focus never learn of it.
- The cursor: a reloaded theme does not change a default cursor that is shown;
  a client's cursor does not cancel a default one that is under way.
- Commands: a repeating command bound to a lone modifier or a hotspot waits for
  the release of a button that was never pressed: it repeats for ever and refuses
  all other bindings (`command.cpp`, "until the user released the key"). One that
  waits for a release and was started by a gesture keeps its handler connected,
  which later takes the release of a repeating one. Callbacks are copied by
  pointer, although the comment says "We must be careful because the callback
  might be erased, so force copy the callback into the lambda"; unloading does not
  stop the timers.
- Hotspots: any change of a binding makes all hotspots anew, so that one fires
  again during one visit, while the comment says "Only one event should be
  triggered once the cursor enters the hotspot area". The motion handler is
  connected twice, that of tablets never.
- `shortcuts-inhibit.cpp` forgets the focus when any inhibitor is destroyed. The
  focused one then stays active after the focus has left, bindings stay disabled
  and `break_grab` ("A keybinding to remove the currently active inhibitor
  temporary.") does nothing. `InhibitFollowsFocus` excludes what was forgotten.

- Keyboard focus: a view that is restored on another output, or minimized or on a
  hidden workspace when its output is unplugged, becomes the active view and looks
  activated without the focus: `move_view_to_output()` focuses a view before it
  is put on the screen, so that the focus also ends on the rearmost one. The fast
  switcher sets `activated` by itself (`fast-switcher.cpp:124`). A layer surface
  that takes the keyboard on demand has it unasked as long as nothing was ever
  focused, as both time stamps are 0 (`layer-shell-node.cpp`), and an exclusive
  one in a low layer gets it only with the next refocus.

### Outputs, power, lock

- An output that a power client turned off and that a reload or a new monitor
  turns on stays black, because only `set_power_mode()` lifts its inhibition
  (`src/core/output-layout.cpp:1695`), while `src/api/wayfire/output-layout.hpp:101`
  says "Output renders itself".
- The input that wakes the outputs does not start the timer (`idle.cpp:83`), so
  they stay on if it was the last. `metadata/idle.xml:22`: "Enters power saving
  mode after the specified seconds of inactivity."
- The lock counts surfaces when they are created, before they have a buffer
  (`session-lock.cpp:277`). Line 279: "All lock surfaces ready. Lock."
- `deactivate_plugin()` returns true when no activation is left
  (`src/output/output.cpp:330`). `src/api/wayfire/output.hpp:153`: "@return true if
  the plugin remains activated, false otherwise."
- `vswitch.cpp:475`: "check for only the additional caps". Line 476 checks all of
  them, so a switch is in its own way. A cancelled switch leaves its overlay view
  disabled until the next switch ends (line 389).
- A swipe counts from the workspace it began on (`vswipe.cpp:355`), so a change
  by a binding in between is undone or added to.
- `preserve-output` says that it remembers the focused output "before it can be
  overridden by another destroyed output with focus"; it remembers each removed
  output that was active.

### Workspaces, panels, dragging

- `src/api/wayfire/workspace-set.hpp` says that a hidden set's views are not
  shown. Views that are always on top live outside of the set's node
  (`wm-actions.cpp:59`) and are enabled by hand; after an unplug, or an IPC call on
  a view without output, they may be on the wrong node. `SetsShown` has them.
- `workspace-impl.cpp:72` promises "each view is at least partly visible on the
  remaining workspaces". It fails for a view with a pending move.
- Unloading the wsets plugin destroys the sets that no output shows, with mapped
  views in them. An index that is not positive creates a set under another one.
  A view unmapped in a hidden set and mapped again is in two sets.
- Show-desktop of wm-actions restores neither views of hidden sets nor views that
  moved; it is not modelled.
- Layer shell: the zone of a surface is reserved before it is mapped and kept when
  it is withdrawn; an unmapped layer surface cannot be mapped again; a negative box
  closes the surface while the list is iterated.
- `move.cpp` tests the bottom slots with `g.x` (lines 391 and 396). A view that
  is unmapped while dragged over a slot is still tiled.
- Tiles: "Invariant: while a controller is active, the tree structure shouldn't
  change" (`tree-controller.hpp:43`) is broken by a new grid, an IPC layout and an
  unmap in another set. The IPC may tile a minimized view. `handle_move_retile()`
  uses an index from before both removals. Rounding loses a pixel per drop, so
  that a tile may get to 0.

### Overviews

- Scale: a new layout during the way out connects the typing filter again, after
  scale has ended. A minimized view that the filter hides is hidden twice; a view
  that leaves while hidden keeps its node disabled (`dark`). Escape during a drag
  does not release it.
- Switcher: being cancelled removes the thumbnails but not the grab
  (`switcher.cpp:192`), while `src/api/wayfire/plugin.hpp:47` says "Plugins should
  honor this signal and exit their grabs/renderers immediately". A view that
  moves to another output meanwhile keeps its transformer. The fast switcher
  leaves it on every view that leaves its list: one that is unmapped, minimized
  or moves to another output (`fast-switcher.cpp:82`). `SwitchersUndo` excludes
  these views (`lost`, one set for each switcher).
- Expo: being cancelled does not remove the bindings that select a workspace
  (`cut`), while `plugin.hpp:60` asks to "clean up all global state it has set (for
  ex. signal callbacks, bindings, ...), because the plugin will be freed after
  this". They are computed once: one for a workspace that has gone throws.

### Rendering

- A frame that fails to be acquired, tested or committed leaves its damage
  unpainted until something else asks for a repaint.
- `send_frame_done(true)` for a surface that is not visible schedules a frame and
  never sends the callback.
- Visibility is computed on GEOMETRY updates only, so that a changed opaque region
  leaves it stale. Counts are kept by the address of an output, which a new output
  may have again. `refresh_nsec` is read before the first present event sets it
  (`render-manager.cpp:868`).
- On direct scanout neither the effects after painting nor the rotation of the
  damage ring run.

### Blue launcher

- Each request to `plugins/blue-launcher/server.js` reads the history, waits, and
  rewrites the file: overlapping requests lose updates, and a file read while it is
  rewritten starts the counts afresh. `index.html` posts to `/apps/<name>/<action>`,
  which the server does not have. `blue-launcher.cpp` ends inside a statement.

## 8. What is not modelled

In the modelled components:

- *Toplevels*: popups, titles, decoration negotiation, client-side shadows. On
  X11, unmanaged and drag-and-drop windows, maximising by the client, size hints.
- *Pointer*: axis, gesture and frame events, which change no state; a node's
  RAW_INPUT flag is constant.
- *Touch*: the recogniser of gestures, which is a library. *Tablets*: pads.
  *Keyboards*: selections; drag and drop; the focus of dialogs and of popups that
  grab.
- *Bindings*: plain key, button and axis bindings of other plugins, extensions,
  and callbacks that bind or unbind while the list of callbacks is run.
- *Input methods*: popups and the contents of the strings.
- *Layout*: modes, positions, scales, transforms, the tests of a configuration,
  external management, shutdown. *Idle*: the screensaver.
- *Session lock*: sizes and the text.
- *Switching*: the second axis, interpolation, bindings per workspace, unloading.
- *Sets and grids*: dialogs, the stacking order, the second axis, show-desktop.
- *Panels*: margins, negative sizes, popups.
- *Dragging*: the tile plugin and scale, which drag too; the wobbly effect.
- *Tiles*: gaps, layouts set by the IPC, focus in a direction, the crossfade.
- *Overviews*: the geometry of slots and walls, dialogs, drawing.
- *Rendering*: what is painted; repaint delays; depth buffers.

Assumed, because code outside of this repository does it: libinput reports a tip
up before a proximity out, and that before a removal; wlroots releases the keys
of a keyboard that it removes; an input method destroys only inactive contexts.
Assumed of plugins: a node told that a finger was lifted ends only its own grab,
and the nodes of views do not change inside a plugin's touch handler.

Not modelled at all: the geometry that the window manager restores, which ends in
requests that the models of toplevels take as input; the plugin loader, start and stop,
configuration and the IPC's sockets; effects, decorations, wobbly and the cube's
drawing, which are numeric and OpenGL; popups; resizing, grid and placement
plugins; window rules; the other protocols, one object per request.

Out of reach: GPU work, `dlopen`, wlroots and other libraries, for which only
what the code relies on is modelled. The blue panel cannot be built as committed
(its `CMakeLists.txt` names files that are missing, and `dbus_manager.hpp` does
not declare its class), so there is no behaviour to be faithful to.

Some type invariants are in no run, since every run checks deeper properties
that presuppose them; they serve the reader and the proofs.

## 9. Running it

    tlc -workers 2 -config TxnManager.cfg TxnManager.tla
    tlapm SessionProofs.tla

`PROJECT.json` gives the module and the configuration of each run. The longest
takes about three and a half minutes.
