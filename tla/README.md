# TLA+ models of como: the Wayland repaint pipeline, the nested Wayland backend, keyboard layout switching, the scripting window model, window stacking, the highlight-window and thumbnail-aside effects, and the window selection filter

This directory holds TLA+ models of the part of como that decides when an
output is repainted, what is repainted, and when clients hear about it:

* the Wayland compositor coordinator, `render::wayland::compositor`
  (`src/render/wayland/compositor.cpp`);
* the per-output repaint scheduler, `render::wayland::output`
  (`src/render/wayland/output.h`; its bodies are in `output.cpp`, which is not in `src/`);
* the wlroots presentation backends: EGL (`src/lib/render/backend/wlroots/egl_backend.h`,
  `src/render/backend/wlroots/egl_output.cpp`) and QPainter
  (`src/render/backend/wlroots/qpainter_output.h`).

Everything runs on the compositor's single event-loop thread. The model's
concurrency is therefore the interleaving of handlers: client requests
(addRepaint, schedule_repaint, schedule_frame_callback), lock/unlock, output
hotplug, Qt timer events, and hardware frame events. Each handler runs to
completion as one step.

## How the parts interact

A client damage request reaches `compositor::addRepaint`. Unless the
compositor is locked, each output accumulates its part of the request in
`repaints_region` and starts its delay timer (`set_delay_timer`). When the
timer fires, `output::run` renders the accumulated region once and hands it
to the backend.

The EGL backend repaints the damage, plus whatever the back buffer lacks given
its *buffer age*: the union of the last `age-1` entries of the damage history.
It then calls `egl_output::present`, which sets `swap_pending`. A commit ends
with a frame event (`output::swapped`). That event clears `swap_pending`,
fires the frame callbacks of the windows assigned to the output, and restarts
the timer if damage came in meanwhile. A rejected commit makes
`endRenderingFrameForScreen` clear `swap_pending` again. Damage that is fully
occluded rolls the output back without presenting.

`schedule_frame_callback` assigns a window to its max-coverage output. An idle
output answers through its frame timer's dry run. `lock()` increments a
counter that makes addRepaint, schedule_repaint and schedule_frame_callback
return early. The last `unlock()` calls `addRepaintFull`.

## Modules

| module | models | state |
|---|---|---|
| `EglBackend` | one output's EGL frames: `get_output_render_region`, `endRenderingFrameForScreen` (occluded rollback, present failure, history push with its pop), `egl_output::present` with `reset()`, the wlroots buffer ages | `history` (damageHistory), `age`, `front`, `swapPending`, `repaints`, `damaged`, ghost `missing` (tiles where a buffer is stale) |
| `WaylandOutput` | the scheduler as operators on a record: `set_delay_timer`, `add_repaint`, `request_frame`, `run`, `dry_run`, `swapped`, and the scheduler-visible effect of the EGL and QPainter `present` | record fields idle, swap_pending, delay_timer, frame_timer, repaints, assigned, msc, flip |
| `WaylandCompositor` | the coordinator: one action per handler, plus the timer and frame events of each output | `live` (keys of `outputs`), `sched`, `locked`, `workspace`, ghosts `requested` and `waiting` |
| `OutputScheduler` | the abstract scheduler of spec 4.4, for every output: phase idle / delay_scheduled / presentation_pending and the pending region | `phase`, `pending` |
| `KeyboardLayoutSwitching` | the four keyboard layout policies (section below) | current layout, active window, layouts hash, config, restored layouts |
| `ClientModel` | the scripting window model `src/scripting/v2/clientmodel.cpp` (section below) | level tree, nextId counter, row notices, client list and window state |
| `WaylandBackend` | the nested Wayland backend `src/wayland_backend.cpp` (section below) | connection thread and queued signals, registry progress, bound proxies, outputs, surfaces, seat, X11 cursor tracker, the cursor images shown |
| `WindowStacking` | the stacking operations of `src/win/layers.h` (section below) | unconstrained stacking order, `most_recently_raised`, active window, managed windows, ghost `op` |
| `HighlightWindow` | the effect `src/effects/highlightwindow/highlightwindow.cpp` (section below) | highlighted windows, the opacity each animation holds, the reverts of the last call |
| `ThumbnailAside` | the effect `src/effects/thumbnailaside/thumbnailaside.cpp` (section below) | `windows` (window -> index and rect), ghost `added` (add order), the windows' sizes |
| `WindowSelector` | the filter `src/input/filters/window_selector.cpp` (section below) | `m_active`, both callbacks, `m_touchPoints`, the pointer, ghosts `answers` (callback calls) and `started` |
| `MCEglBackend`, `MCWaylandCompositor`, `MCKeyboardLayoutSwitching`, `MCClientModel`, `MCClientModelByScreen`, `MCWaylandBackend`, `MCWindowStacking` (which also composes `HighlightWindow` with `WindowStacking`), `MCWindowSelection` (which composes `WindowStacking`, `ThumbnailAside` and `WindowSelector`) | model values, small geometries and window sets for TLC | none |

Regions are sets of tiles: an output's geometry is a set of tiles, and a
window's visible rect is too. Rectangle arithmetic is abstracted to set
operations, which keeps every inclusion the code relies on. The scheduler
bodies come from spec section 4.4, because `output.cpp` is not in `src/`; the
map marks those definitions `spec_modelled`.

Two ghost variables observe clients:

* `requested`: the tiles asked for and not yet rendered;
* `waiting`: the windows waiting for a frame callback.

## The scheduler refines spec 4.4

`OutputScheduler` states what spec 4.4 promises of each output's
scheduler, with no timers or backends:

* `Accumulate`: a repaint request adds a region, and an idle output starts its deadline;
* `Arm`: a window repaint starts the deadline without a region;
* `Render`: the whole pending region is consumed, and the frame is presented or dropped;
* `Complete`: a presentation ends; damage that arrived meanwhile starts the next deadline;
* `Cancel`: teardown stops the deadline;
* `Fresh`: the output is added or removed.

The machine also holds the set of outputs the coordinator owns. Only a
plug or unplug makes a scheduler fresh, and the scheduler of an output that
is not plugged in never moves (spec 4.5, and the cancellation rule of
spec 5). A render presents only a nonempty region.

`WaylandCompositor` maps its state onto it with `INSTANCE ... WITH`:

* `outputs` is `live`, the keys of `compositor::outputs`;

* `phase` is `presentation_pending` while `swap_pending` is set;
* otherwise it is `delay_scheduled` while the delay timer runs;
* otherwise it is `idle`;
* `pending` is the output's `repaints_region`.

`ImplementsOutputScheduler` checks the abstract state machine as a property of
the `compositor_repaint` run. TLC cannot evaluate the abstract weak fairness
through this mapping, because the mapped variables are expressions over the
scheduler records. The abstract liveness (a due deadline is rendered, a
presentation completes) is checked at the detailed level by `RepaintServed`
instead.

The property is about the coordinator's code, not only the scheduler's.
Its mutant is an `output_removed` (`compositor.cpp:76-88`) that erases the
map entry but leaves the scheduler alive, with its region and timers. TLC
finds that a step the abstract machine forbids. A fan-out of `addRepaint` to
outputs outside the map is caught the same way.

## Keyboard layout switching

`KeyboardLayoutSwitching` models `src/input/keyboard_layout_switching.cpp`.
It covers all four policies that `policy::create` can build, and the policy is
chosen in `Init`:

* `global`: one layout, saved with the session;
* `desktop`: one layout per virtual desktop;
* `window`: one layout per window;
* `winclass`: one layout per application.

The state is:

* xkb's current layout;
* the active client;
* the open windows and existing desktops;
* the policy's `layouts` hash, keyed by desktop or window (`NoEntry` when a key is absent);
* the `KConfigGroup` entries;
* `restored_layouts`.

Each signal the policies connect to is one action:

* `layoutChanged`;
* `clientActivated`;
* `windowClosed`;
* `currentChanged`;
* `aboutToBeDestroyed`;
* `layoutsReconfigured`;
* session save and session load.

The environment adds window and desktop creation and a restart, which keeps
only the config. `policy::set_layout` emits `layoutChanged` synchronously, so
the policy's `handle_layout_change` re-enters the handler that called it. The
model composes that chain inside one step, as operators on
`[cur, L]` records. Two abstractions are made:

* xkb refuses an index past its last layout;
* `win::belong_to_same_client` is a client function, `ClientOf`.

The run `keyboard_layouts` uses three windows: two of one client and one
application, plus a dock. It has two desktops, three layouts and 6 events.
That is enough for a layout switch, an activation through the sibling branch,
and a save/restart/load round trip.

## Scripting window model

`ClientModel` models the scripting v2 `ClientModel`. A model is built from a
list of restrictions (the four `CLIENT_MODEL_WRAPPER` classes). `AbstractLevel::create`
turns the list into a tree:

* a `ForkLevel` per restriction, with one child per screen or desktop;
* a `ClientLevel` leaf, which lists windows in a `QMap` keyed by a fresh id;
* an activity level is created and dropped (`create` answers `nullptr`).

Levels and window entries share `nextId`'s counter. The state is:

* `levels`: level id to the level's fields (parent, restriction, stored
  screen and desktop, children, clients);
* `root`, `counter`;
* `notices`, a ghost: for each `beginInsert`/`beginRemove` of the step, the
  level that changes and the level a view takes the announced parent index to be;
* the workspace: client list, each window's desktop, screen and minimized
  flag, current desktop, desktop and screen counts, and the exclusions.

Each signal the levels connect to is one action, and all its slots run in
connection order (the order of the levels' ids):

* `clientAdded` and `clientRemoved`;
* a window's `desktopChanged`, `screenChanged`, and `windowHidden`/`windowShown`;
* `currentChanged` and `exclusionsChanged`, which trigger `reInit`;
* the desktop and screen `countChanged`, which trigger the forks' handlers.

The environment is modelled from outside `src/`, in two places:

* how the desktop manager orders a desktop removal: current desktop first,
  then moved windows, then `countChanged`;
* where windows of a removed screen go: the model sends them to the last screen.

`exclude` tests every exclusion flag. A window type (desktop, dock,
utility, special) and a window flag (skip taskbar, skip pager, skip
switcher, not wanting input) are both a fixed trait of the window
(`TraitOf`), because the levels never hear of a flag changing.

The lookups Qt views use (`index`, `parent`, `rowForId`, `parentForId`,
`levelForId`, `idForRow`) are recursive operators over the tree.

`ClientModelLevels.cfg` checks all four wrapper models with:

* two windows, one a dock;
* up to two screens and two desktops;
* the dock, other-desktops and minimized exclusions;
* three events.

That is enough for a window to move and be re-filtered, for an exclusion to
change, and for a screen or desktop to be added or removed under an existing
tree.

## Nested Wayland backend

`WaylandBackend` models `src/wayland_backend.cpp`, where como runs as a client
of a parent Wayland compositor. Three threads of control meet in it:

* the `ConnectionThread`, whose `connected`, `failed` and `connectionDied`
  signals reach the main thread through queued connections (the `queue`
  variable, a FIFO);
* the parent compositor, whose registry announces its globals one by one and
  then `interfacesAnnounced`, and which later sends output modes, configures,
  pings, seat capabilities and pointer enters;
* the X server, whose cursor changes reach the `X11CursorTracker` while it is
  tracking.

Each slot is one action and runs to completion:

* `connected`, `connection_died` and `connection_failed`;
* the registry handlers (`interface_announced` for the five that only bind,
  `output_announced`, `seat_announced`) and `interfaces_announced`, which runs
  `createSurface`;
* `output_changed` and `shell_surface_configured`, the two sources of
  `shellSurfaceSizeChanged`, which runs `checkBackendReady`;
* the seat's `hasKeyboardChanged`, `hasPointerChanged` and `Pointer::entered`;
* `x11_cursor_changed` (`cursorChanged`), `shell_surface_pinged` (`resetCursor`)
  and `install_cursor_shape` (`WaylandBackend::installCursorImage`).

Data is abstract. A global is its interface name, a size is only valid or
not, and a cursor image is the X11 serial it was read for, or `"themed"` for a
shape from the cursor theme. `MCWaylandBackend` offers two parents. One has a
fullscreen shell and a sub-compositor, so the cursor is a sub-surface. The
other has a plain shell and no sub-compositor, so the seat installs the
cursor. Two X11 serials and `MaxEvents = 5` (cursor changes, seat and pointer
events, pings, resizes, shape requests) let a cursor change fall before and
after `wl_shm` is bound, and let a resize follow `backendReady`.

Fairness: the event loop delivers queued signals and registry events, and the
parent answers the bind of its output with a mode and `setFullscreen` with a
configure. The parent is not assumed to stay alive, to send input, or to resize.

## Window stacking and the highlight-window effect

`WindowStacking` models the five operations of `src/win/layers.h`. Each is
one action, and each ends with the `updateStackingOrder` that the
`StackingUpdatesBlocker` (or `restack`'s explicit call) runs:

* `lower_window`: the window goes to the bottom. For a transient with an X11
  group, the other group members go below it, lowered one by one in reversed
  `ensureStackingOrder` order (`Lowered`, `lower_each`).
* `raise_window`: the window's chain of leads is collected (`LeadChain`) and
  sorted by `ensureStackingOrder`. Each controlled lead is then raised in that
  order, and the window last (`Raised`, `raise_each`). `most_recently_raised`
  becomes the last non-special window raised.
* `raise_or_lower_client`: lowers the window if it is the topmost one
  (`most_recently_raised` if still stacked, else `topClientOnDesktop`), and
  raises it otherwise.
* `restack`: unless forced or of the same client, the loop looks for a window
  of `under`'s client in the same layer (`restackTarget`). The window is then
  inserted below it (`Restacked`).
* `restack_client_under_active`: raises the window when nothing is active or
  the active window is in another layer. Otherwise it restacks the window
  under the active one.

The unconstrained order is a sequence, bottom first. The constrained
`stacking_order` is derived from it by layer, which is the contract of
`Space::updateStackingOrder` that `layers.h` relies on. That code and
`ensureStackingOrder`, `topClientOnDesktop`, `belong_to_same_client` and
`is_special_window` are not in `src/`, so they are marked `spec_modelled`.
The Workspace's own steps are environment actions:

* `manage`: appends a window, then raises it, or restacks it under the active
  window when focus stealing prevention holds it back;
* `activate`;
* `close`: drops the control, and clears `most_recently_raised` and the
  active window if they are this window;
* `release`: removes a closed window from the order.

`HighlightWindow` models the effect that fades every other window while a
set of windows is highlighted. An animation is represented by the opacity it
holds the window at: `highlight` or `ghost`. A revert is represented by the
opacity it starts from. Where a window starts or ends (`isInitiallyHidden`)
and animation timing change no decision of the effect, so they are left out.
`m_highlightedIds` and `m_monitorWindow` are never set in the code, so they
are left out too.

`MCWindowStacking` composes the two. The effect's `stackingOrder` is the
space's order, its `findWindow` resolves the managed windows, and the
effect's `windowAdded`, `windowClosed` and `windowDeleted` slots run at the
matching Workspace steps. `ready` holds the windows announced to effects.
A window whose pointer the effect still holds is not managed again; that
case is the `highlightwindow.cpp:97` hazard.

Bounds: four windows.

* `a`, `b` and `c` belong to one application and one group, with the lead
  chain `a <- b <- c`. `c` is in the `above` layer.
* `d` is a special window of a second application.
* At most `MaxLive = 3` windows are stacked at once.

This is enough for a lead chain of length 2 across two layers, a group lower
with two other members, and a restack under an active window of another
application. The run uses `VIEW StateView`, which leaves out `op` and
`reverts`. The properties read only their primed values, and no action reads
them, so two states that differ only in those have the same successors.
There is no fairness: no property here is a liveness property.

## Thumbnail aside and the window selection filter

`ThumbnailAside` models the effect that shows a thumbnail of the active
window, toggled by a shortcut, in a column at the bottom right of the
maximize area:

* `toggleCurrentThumbnail`: nothing without an active window; otherwise it
  removes the window's thumbnail or adds one;
* `addThumbnail`: a new entry with index `count()`, then `arrange`;
* `removeThumbnail`: the entry goes, every higher index moves down by one,
  then `arrange`;
* `arrange`: one scale, the minimum of the area height over the total
  height and of `maxwidth` over the widest window. The offsets add up the
  scaled heights and the spacing in index order (`Offset`), and every rect is
  right-aligned at its offset. The `double` scale is kept as an exact
  fraction; `int()` of a non-negative product is integer division;
* `slotWindowClosed` removes; `slotWindowGeometryShapeChanged` arranges
  again when the size changed, and only repaints on a move.

Painting, `slotWindowDamaged`, `repaintAll` and `isActive` only ask for
repaints or read state, so they are left out.

`WindowSelector` models the filter that interactive window or point
selection (kill window, effects asking for a window) installs. A callback is
represented by the request that set it. The ghost `answers` logs every call
of a callback with its value, and `started` counts the requests:

* `start(kind)`: asserts `!m_active` and sets one of the two callbacks;
* `button`: while active, a release that leaves no button held cancels on the
  right button and otherwise accepts at the pointer;
* `keyEvent`: Escape cancels; Enter, Return and Space accept at the pointer.
  With pointer warping an arrow key moves the pointer, abstracted to any
  position;
* `touchDown`, `touchMotion`, `touchUp`: the last touch point lifted accepts
  at its position;
* `cancel` and `accept` call whichever callbacks are set, then `deactivate`
  clears both and the touch points.

`findToplevel` (in `input::redirect`, not in `src/`) is given as the topmost
managed window covering the position; it is `spec_modelled`.

`MCWindowSelection` composes both with `WindowStacking`:

* the shortcut takes the space's active window;
* closing a window runs the effect's `windowClosed` slot;
* a managed window can be resized, which runs `windowGeometryShapeChanged`;
* the filter's `findToplevel` searches the managed windows in the
  constrained stacking order.

The user's held buttons and touch points are environment state. An event
reaches the filter only while a selection is active (`Filtered`). Otherwise
it goes to clients and changes nothing modelled here.

Bounds:

* two windows of two applications, each of one of two sizes (2x2 or 4x4);
* `maxwidth` 4, area height 6, spacing 1, so that both the height and the
  width limit the scale;
* two positions, with `a` covering both and `b` one, so that which window is
  found depends on the stacking;
* two touch ids and two buttons, so that a lift or release can leave another
  one down;
* `MaxRequests = 2`: a callback left over from the first selection could
  answer the second.

Two windows are enough to give a removal that shifts an index and a resize
that moves the other thumbnail. `VIEW StateView` drops `op` and projects
`answers` onto its request ids: no step reads the logged values. There is no
fairness; no property here is a liveness property.

## Runs

| run | expect | what it shows |
|---|---|---|
| egl_buffer_age | pass | With `reset()` succeeding, a partial repaint by buffer age never leaves a stale tile. This holds across commits, occluded rollbacks, rejected presents, and history pops. `HistoryDepth` is 2 there, so pops and ages older than the history both occur within 5 damage events. |
| egl_reset_failure | violation | `present()` ignores `reset()`'s result. After a rejected frame and a failed reset, the ages outlive the history, and a later partial repaint misses tiles (code bug, egl_output.cpp:164). |
| compositor_repaint | pass | No damage is dropped across locks: `NoDamageDropped`, an invariant relating the client ghost to the schedulers. Every accumulated repaint is eventually rendered (`RepaintServed`). The schedulers implement the abstract `OutputScheduler` (`ImplementsOutputScheduler`). Covers hotplug, a headless output, and committed, rejected and occluded frames. In every behaviour without `lock()`, every frame callback is eventually delivered (`FrameRequestAnsweredUnlocked`). |
| keyboard_layouts | pass | The remembered layout of the active window (or current desktop) is the layout in use, and the windows of one client agree on their layout under the application policy. |
| compositor_qpainter_stall | violation | On QPainter, a rejected present leaves `swap_pending` set for good, and the output never repaints again (code bug). |
| clientmodel_levels | pass | Each leaf lists exactly the windows its exclusions and stored restrictions admit (`ContentsMatchRestrictions`). Every level and window entry round-trips through `index()`/`parent()` (`IndexesRoundTrip`). Holds under all four wrapper models. |
| clientmodel_screen_added | violation | In `ClientModelByScreen`, a screen hotplug announces the root's rows under `createIndex(0, 0, rootId)`, because `ForkLevel::rowForId` answers 0 for its own id. That index is one `index()`/`parent()` never produce, so views miss the new screen (code bug, clientmodel.cpp:525). |
| wayland_backend | pass | `backendReady` is emitted at most once and only with a valid `shellSurfaceSize()` (`ReadyOnceWhenSized`), whatever resizes follow. Against either parent it is eventually emitted unless the connection fails or dies (`BackendEventuallyReady`), whichever comes first of the output's mode and `createSurface`. |
| window_stacking | pass | Raising a transient stacks its controlled leads above everything else, in their previous relative order, with the window on top (`RaiseStacksLeadsBeneath`). Lowering a group transient puts its group members below it and both below every other window, keeping the group's order (`LowerStacksGroupBeneath`). The highlight effect holds every added highlight window at full or ghost opacity exactly as it is asked for, and at none once highlighting ends (`HighlightStateShown`). Every revert starts from the opacity the window was held at (`RevertStartsFromShown`). |
| window_stacking_restack | violation | `restack`'s comment says a window of another application goes below all windows of the active application. The loop picks the application's topmost window instead. A window managed under focus stealing prevention can therefore end up above the active window (divergence, layers.h:152). |
| window_selection | pass | Thumbnail indices stay 0, 1, ... in the order the thumbnails were added, through toggles and closes in any order (`IndicesFollowAddOrder`). Every thumbnail's rect is the one `arrange()` gives for the current sizes of all thumbnailed windows, through resizes (`ArrangedForCurrentSizes`). Every selection is answered exactly once, to its own requester, in request order, whatever the user's buttons, keys, pointer and touch points do (`AnsweredOnce`). |
| wayland_cursor_lost | violation | `X11CursorTracker::cursorChanged` records the serial before checking the shm pool. A cursor change between `connected` and the `wl_shm` announcement is never cached or installed. Later calls with that serial return as "not changed", and `resetCursor` has nothing to reinstall (code bug, wayland_backend.cpp:116). |

Each property of the passing runs has a mutant in `PROJECT.json`. A mutant is
a variant of a code-mapped definition, written just before it, with a
plausible bug: an off-by-one in the render region, a history without its pop,
an unlock without the full repaint, an output removal that leaks its
scheduler, a present that leaves `swap_pending` set, a `request_frame` that
never starts the frame timer, a `swapped` that forgets its frame flag, a
`checkClient`
that never removes, a `rowForId` without its recursion, a level removal
that frees children but keeps their pointers, a `checkBackendReady` that does
not disconnect itself, a `createSurface` that does not watch the output, a
registry handler that binds any global, a `do_raise` that does not remove the
window first, leads raised in reversed order, a group lowered forwards, a
`slotWindowAdded` that does not ghost, a `finishHighlighting` that clears
the highlighted set before reverting, an added thumbnail indexed one past
`count()`, a removal that keeps the indices above it, a resize that only
repaints, or a `deactivate` that keeps the point callback. TLC finds the property violated in each case.

## Bounds and fairness

* **Compositor runs:**
  * Two outputs, each of one tile.
  * Two windows: one on the first output only, one spanning both.
  * One output hot-pluggable (headless in `compositor_repaint`).
  * `MaxLock = 2` for nesting.
  * `MaxEvents = 5` bounds client and hotplug events, enough for a nested
    lock, a dropped request, the unlock, and a hotplug in one behaviour.
* **EGL runs:**
  * One output of two tiles and three buffers, so that a back buffer can be
    of age 2 or 3.
  * `MaxDamage = 5`.

The history-depth off-by-one (`size() > 10` keeps 11 entries where the spec
says 10) is listed as a hazard: `BufferAgeSound` holds with the pop as written,
so the extra entry is harmless.

`CHECK_DEADLOCK FALSE` is set in the compositor, EGL, keyboard, scripting and backend
runs because a compositor with no
client input, or a nested backend with nothing more from its parent, is
legitimately idle: the environment's events are bounded,
and the final idle state has nothing to do. The window-stacking and window-selection runs
check for deadlock: a highlight request, or a pointer move, is always possible.

Fairness (in `WaylandCompositor`) is weak fairness on:

* each output's delay-timer event, frame-timer event and frame event;
* `unlock`.

The justification: a running Qt timer fires, a committed page flip produces a
frame event, and the spec describes lock and unlock as paired. Client events
get no fairness.

## Not modelled

* Frame-clock timing: `delay`, `last_paint_durations`, `paint_periods`,
  `refresh_length` and `retard_next_run` are abstracted to fair timer events.
* `check_idle`, and `win->repaint_outputs` cleanup on removal.
* Output geometry and mode changes.
* GL state.
* In the scripting model: `ClientFilterModel` (case-insensitive string
  matching of captions and resource names), `data()` and `roleNames()`
  (read-only formatting), and the empty activity hooks. Also changes of a
  window's skip-taskbar, skip-pager, skip-switcher or input flags. The levels
  do not listen to those; see the hazards.
* In the nested backend: reading the X11 cursor image (`CursorData::init`,
  assumed to succeed), cursor theme loading, forwarding of key, button,
  motion and axis events, the destructor, and globals announced after
  `interfacesAnnounced` (a late seat comes up without the install flag; see
  the hazards).
* In window stacking: `FocusChain::moveAfterClient`, `cancel_auto_raise`,
  virtual desktops, and the reuse of an `EffectWindow` address (see the
  hazards). The toggle of `raise_or_lower_client` against a stale
  `most_recently_raised` is explored but not judged; see the hazards.
* `lock()` does not stop an armed delay timer, so an output renders while
  the compositor is locked. `NoRenderWhileLocked` (in `WaylandCompositor`)
  states spec 3's rule, and TLC finds it violated by a delay timer armed
  before `lock()` that fires afterwards. That run was retired to stay within
  the run budget in favour of `window_selection`; the hazard at
  `compositor.cpp:140` records it.
* In thumbnail aside, painting and repaints. Two issues follow from the code
  but are about pixels, not the state modelled:
  * a resize calls `arrange()` without the `repaintAll()` that add and
    remove make first, so the old thumbnail areas are not repainted;
  * the scale ignores the spacing, so the column is taller than the area by
    the spacing times the number of thumbnails, and the top thumbnail
    overlaps the area's top edge.
* In the window selection filter: keyboard focus, the selection cursor, and
  events passed on to the Wayland server. The filter swallows every button
  event while active, including the release of a press that reached a
  client before `start()`. That client never sees the release, and the
  release accepts a selection the user did not click for. The model lets
  buttons be held across `start()`, so the second case is explored; the
  first is outside the filter.
* A frame callback asked for while locked is lost. The spec says nothing
  about it, so it is a hazard (`compositor.cpp:116`) rather than a run.
* The components that `PROJECT.json` lists as `not_modelled`, with reasons.
  The largest of them hold little control state:
  * the kwmtheme client and the x11 decoration renderers draw pixmaps;
  * the decoration bridge and `support_info.h` load plugins and format text;
  * the tabbox layout preview is settings UI;
  * `space.h` declares the space's members;
  * `decoratedclient.cpp` forwards a window's signals to its decoration.
  A model of any of these would restate single comparisons rather than check
  an interleaving, so the map covers under a third of the source lines.

## Plan for later sittings

Keyboard layout switching:

* a session round-trip property;
* a shrinking layout list, for the stale-index hazards.

Repaint pipeline and other components:

1. Done: `OutputScheduler`, refined by `WaylandCompositor`.
2. Compose `EglBackend` into the compositor, so that buffer ages and
   scheduling are checked together.
3. Model output geometry changes, for the stale global-coordinate history
   hazard.
4. Model the ordering of `output_added` listeners, for the `operator[]` hazard.
5. Further components:
   * window decorations (`decorations/decoratedclient.cpp`, `win/deco/bridge.h`);
   * in the nested Wayland backend, globals announced late and what becomes
     of the proxies left after `connectionDied`;
   * xwayland drag and drop.
