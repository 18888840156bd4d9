----------------------- MODULE KeyboardLayoutSwitching -----------------------
(***************************************************************************)
(* The keyboard layout switching policies of                              *)
(* src/input/keyboard_layout_switching.cpp: global, virtual desktop,       *)
(* window and application ("winclass").  A policy remembers a layout per   *)
(* desktop or per window, restores it when the desktop or window becomes   *)
(* current, and saves and loads its memory with the session.               *)
(*                                                                         *)
(* Everything runs on the event-loop thread.  policy::set_layout emits     *)
(* layoutChanged synchronously, and the policy's own handle_layout_change  *)
(* is connected to it: a handler that calls set_layout re-enters           *)
(* handle_layout_change before it continues.  The operators below compose  *)
(* that call chain inside one step.                                        *)
(***************************************************************************)
EXTENDS Naturals, FiniteSets, Functions

CONSTANTS
  Policies,     \* the policy names policy::create may be given
  Windows,      \* toplevel windows
  Special,      \* the desktop and dock windows (win::is_desktop / is_dock)
  ClientOf,     \* ClientOf[w]: win::belong_to_same_client is ClientOf[v] = ClientOf[w]
  AppOf,        \* AppOf[w]: the window's desktop_file_name
  NoApp,        \* the empty desktop_file_name
  Desktops,     \* virtual desktops that may exist
  NumLayouts,   \* xkb::numberOfLayouts()
  NoWindow,     \* model value: no active client
  NoEntry,      \* model value: a hash or config key that is absent
  GlobalKey,    \* model value: the config key of the global policy
  MaxEvents     \* bound on the events of a behaviour

ASSUME /\ Policies \subseteq {"global", "desktop", "window", "winclass"}
       /\ Special \subseteq Windows
       /\ DOMAIN ClientOf = Windows /\ DOMAIN AppOf = Windows
       /\ NoWindow \notin Windows
       /\ NumLayouts \in Nat \ {0}

Layouts == 0 .. NumLayouts - 1
Apps == Range(AppOf) \ {NoApp}
ConfigKeys == {GlobalKey} \cup Desktops \cup Apps

VARIABLES
  policy,     \* the policy policy::create built
  current,    \* xkb::currentLayout()
  active,     \* workspace()->activeClient()
  open,       \* windows that exist
  desk,       \* VirtualDesktopManager::currentDesktop()
  desktops,   \* virtual desktops that exist
  layouts,    \* the policy's layouts hash: desktop or window -> layout
  config,     \* the policy's KConfigGroup: key -> layout
  restored,   \* application_policy::restored_layouts: desktop file name -> layout
  events      \* events so far

vars == <<policy, current, active, open, desk, desktops, layouts, config, restored, events>>

Entry == Layouts \cup {NoEntry}

TypeOK ==
  /\ policy \in Policies
  /\ current \in Layouts
  /\ active \in open \cup {NoWindow}
  /\ open \subseteq Windows
  /\ desk \in desktops /\ desktops \subseteq Desktops
  /\ layouts \in [Windows \cup Desktops -> Entry]
  /\ config \in [ConfigKeys -> (Layouts \ {0}) \cup {NoEntry}]
  /\ restored \in [Range(AppOf) -> Entry]
  /\ events \in 0 .. MaxEvents

(* xkb::switchToLayout then xkb::currentLayout (xkb.cpp, outside src/):   *)
(* an index past the last layout is refused.                              *)
switched(cur, index) == IF index \in Layouts THEN index ELSE cur

(* getLayout: the hash's value, 0 when the key is absent. *)
getLayout(L, key) == IF L[key] = NoEntry THEN 0 ELSE L[key]

(* The window may carry a layout: it exists and is not a desktop or dock. *)
Ordinary(w) == w /= NoWindow /\ w \notin Special

SameClient(v, w) == ClientOf[v] = ClientOf[w]

(***************************************************************************)
(* virtual_desktop_policy::handle_layout_change: remember the layout for  *)
(* the current desktop (inserting it, or updating it when it differs).     *)
(***************************************************************************)
vd_handle_layout_change(L, dk, index) == [L EXCEPT ![dk] = index]

(* Variant that only inserts new entries and never updates one. *)
win_handle_layout_change_insert_only(L, act, index) ==
  IF Ordinary(act) /\ L[act] = NoEntry THEN [L EXCEPT ![act] = index] ELSE L

(* window_policy::handle_layout_change: remember it for the active window. *)
win_handle_layout_change(L, act, index) ==
  IF Ordinary(act) THEN [L EXCEPT ![act] = index] ELSE L

(* Variant without the loop over the other windows of the client. *)
app_handle_layout_change_no_loop(L, act, index) ==
  IF ~Ordinary(act) \/ L[act] = index THEN L ELSE [L EXCEPT ![act] = index]

(***************************************************************************)
(* application_policy::handle_layout_change: as the window policy, but     *)
(* when the active window's entry changes or is new, every remembered      *)
(* window of the same client takes the layout too.  An entry that already *)
(* holds the layout returns early, before that loop.                       *)
(***************************************************************************)
app_handle_layout_change(L, act, index) ==
  IF ~Ordinary(act) \/ L[act] = index THEN L
  ELSE [k \in DOMAIN L |->
          IF k = act \/ (k \in Windows /\ L[k] /= NoEntry /\ SameClient(k, act))
          THEN index ELSE L[k]]

(* The policy's slot for layoutChanged (global_policy has none). *)
handle_layout_change(pol, L, act, dk, index) ==
  CASE pol = "desktop"  -> vd_handle_layout_change(L, dk, index)
    [] pol = "window"   -> win_handle_layout_change(L, act, index)
    [] pol = "winclass" -> app_handle_layout_change(L, act, index)
    [] OTHER            -> L

(***************************************************************************)
(* policy::set_layout, on s = [cur, L]: switch xkb, and if the current     *)
(* layout changed emit layoutChanged, which runs handle_layout_change.     *)
(***************************************************************************)
set_layout(pol, s, act, dk, index) ==
  LET new == switched(s.cur, index)
  IN  IF new = s.cur THEN s
      ELSE [cur |-> new, L |-> handle_layout_change(pol, s.L, act, dk, new)]

(***************************************************************************)
(* application_policy::handle_client_activated for an ordinary window w    *)
(* (the early returns are in client_activated): the window's own entry;    *)
(* else the first remembered window of the same client, whose layout is   *)
(* set and then recorded for w; else the layout restored for w's          *)
(* application (taken), recorded when it is not layout 0.                  *)
(***************************************************************************)
handle_client_activated(s, w, dk) ==
  LET siblings == {v \in Windows : s.L[v] /= NoEntry /\ SameClient(v, w)}
  IN  IF s.L[w] /= NoEntry
      THEN set_layout("winclass", s, w, dk, s.L[w])
      ELSE IF siblings /= {}
      THEN LET lay == s.L[CHOOSE v \in siblings : TRUE]
               s1  == set_layout("winclass", s, w, dk, lay)
           IN  [s1 EXCEPT !.L = app_handle_layout_change(@, w, lay)]
      ELSE LET s1 == set_layout("winclass", s, w, dk, getLayout(restored, AppOf[w]))
           IN  IF s1.cur /= 0
               THEN [s1 EXCEPT !.L = app_handle_layout_change(@, w, s1.cur)]
               ELSE s1

(* restored_layouts.take: the activation consumes the application's entry. *)
take_restored(s, w) ==
  IF s.L[w] = NoEntry /\ ~\E v \in Windows : s.L[v] /= NoEntry /\ SameClient(v, w)
  THEN [restored EXCEPT ![AppOf[w]] = NoEntry]
  ELSE restored

S == [cur |-> current, L |-> layouts]

Event ==
  /\ events < MaxEvents
  /\ events' = events + 1

Apply(s) == current' = s.cur /\ layouts' = s.L

(***************************************************************************)
(* The session keys the policies write (prepareSessionSaveRequested), all  *)
(* after clear_layouts has deleted every LayoutDefault entry.              *)
(***************************************************************************)
clear_layouts == [k \in ConfigKeys |-> NoEntry]

(* global_policy: the current layout, unless it is layout 0. *)
global_save == IF current /= 0 THEN [clear_layouts EXCEPT ![GlobalKey] = current]
               ELSE clear_layouts

(* virtual_desktop_policy: every remembered desktop with a layout other than 0. *)
vd_save == [k \in ConfigKeys |-> IF k \in Desktops /\ layouts[k] \notin {NoEntry, 0}
                                 THEN layouts[k] ELSE NoEntry]

(***************************************************************************)
(* application_policy: for every remembered window with a layout other    *)
(* than 0 and a desktop file name, that name's key; windows of different  *)
(* clients may share a name, and the last one the hash iterates wins.      *)
(***************************************************************************)
app_save ==
  LET written(a) == {layouts[w] : w \in {v \in Windows : AppOf[v] = a /\ layouts[v] \notin {NoEntry, 0}}}
  IN  {f \in [ConfigKeys -> Entry] :
         \A k \in ConfigKeys : f[k] \in IF k \in Apps /\ written(k) /= {} THEN written(k)
                                        ELSE {NoEntry}}

(* Session loads (loadSessionRequested), all only with more than one layout. *)
global_load == switched(current, getLayout(config, GlobalKey))

(* virtual_desktop_policy: remember every existing desktop's saved layout, *)
(* then handle_desktop_change.                                             *)
vd_load ==
  LET L1 == [k \in DOMAIN layouts |->
               IF k \in desktops /\ config[k] \notin {NoEntry, 0} THEN config[k] ELSE layouts[k]]
  IN  set_layout("desktop", [cur |-> current, L |-> L1], active, desk, getLayout(L1, desk))

(* application_policy: the saved layouts wait in restored_layouts. *)
app_load == [a \in DOMAIN restored |-> IF a \in Apps /\ config[a] /= NoEntry THEN config[a]
                                        ELSE restored[a]]

-----------------------------------------------------------------------------
(***************************************************************************)
(* The user switches layout (xkb); the keyboard layout spy emits           *)
(* layoutChanged, connected to the policy's handle_layout_change.          *)
(***************************************************************************)
layout_switched ==
  /\ Event
  /\ \E i \in Layouts \ {current} :
       /\ current' = i
       /\ layouts' = handle_layout_change(policy, layouts, active, desk, i)
  /\ UNCHANGED <<policy, active, open, desk, desktops, config, restored>>

(***************************************************************************)
(* Workspace::clientActivated(w), w possibly none: the window policy's     *)
(* slot restores w's layout (0 when it has none); the application policy   *)
(* runs handle_client_activated.  Desktop and dock windows are ignored.   *)
(***************************************************************************)
client_activated ==
  /\ Event
  /\ \E w \in (open \cup {NoWindow}) \ {active} :
       /\ active' = w
       /\ IF Ordinary(w) /\ policy = "window"
          THEN /\ Apply(set_layout("window", S, w, desk, getLayout(layouts, w)))
               /\ UNCHANGED restored
          ELSE IF Ordinary(w) /\ policy = "winclass"
          THEN /\ Apply(handle_client_activated(S, w, desk))
               /\ restored' = take_restored(S, w)
          ELSE UNCHANGED <<current, layouts, restored>>
  /\ UNCHANGED <<policy, open, desk, desktops, config>>

(* A window appears. *)
window_opened ==
  /\ Event
  /\ \E w \in Windows \ open : open' = open \cup {w}
  /\ UNCHANGED <<policy, current, active, desk, desktops, layouts, config, restored>>

(* Variant in which a closed window stays the active client. *)
window_closed_keeps_active ==
  /\ Event
  /\ \E w \in open :
       /\ open' = open \ {w}
       /\ layouts' = [layouts EXCEPT ![w] = NoEntry]
       /\ UNCHANGED active
  /\ UNCHANGED <<policy, current, desk, desktops, config, restored>>

(* Toplevel::windowClosed: the slot forgets the window; it is no longer active. *)
window_closed ==
  /\ Event
  /\ \E w \in open :
       /\ open' = open \ {w}
       /\ layouts' = [layouts EXCEPT ![w] = NoEntry]
       /\ active' = IF active = w THEN NoWindow ELSE active
  /\ UNCHANGED <<policy, current, desk, desktops, config, restored>>

(* VirtualDesktopManager::currentChanged: handle_desktop_change. *)
desktop_changed ==
  /\ Event
  /\ \E d \in desktops \ {desk} :
       /\ desk' = d
       /\ IF policy = "desktop"
          THEN Apply(set_layout("desktop", S, active, d, getLayout(layouts, d)))
          ELSE UNCHANGED <<current, layouts>>
  /\ UNCHANGED <<policy, active, open, desktops, config, restored>>

(* A desktop is created. *)
desktop_added ==
  /\ Event
  /\ \E d \in Desktops \ desktops : desktops' = desktops \cup {d}
  /\ UNCHANGED <<policy, current, active, open, desk, layouts, config, restored>>

(* VirtualDesktop::aboutToBeDestroyed (of a desktop not current): forgotten. *)
desktop_removed ==
  /\ Event
  /\ \E d \in desktops \ {desk} :
       /\ desktops' = desktops \ {d}
       /\ layouts' = [layouts EXCEPT ![d] = NoEntry]
  /\ UNCHANGED <<policy, current, active, open, desk, config, restored>>

(* keyboard_layout_spy::layoutsReconfigured: clear_cache. *)
clear_cache ==
  /\ Event
  /\ layouts' = [k \in DOMAIN layouts |-> NoEntry]
  /\ UNCHANGED <<policy, current, active, open, desk, desktops, config, restored>>

(* SessionManager::prepareSessionSaveRequested. *)
session_save ==
  /\ Event
  /\ CASE policy = "global"   -> config' = global_save
       [] policy = "desktop"  -> config' = vd_save
       [] policy = "winclass" -> config' \in app_save
       [] OTHER               -> UNCHANGED config
  /\ UNCHANGED <<policy, current, active, open, desk, desktops, layouts, restored>>

(* SessionManager::loadSessionRequested. *)
session_load ==
  /\ Event
  /\ NumLayouts > 1
  /\ CASE policy = "global"   -> /\ current' = global_load
                                 /\ UNCHANGED <<layouts, restored>>
       [] policy = "desktop"  -> /\ Apply(vd_load)
                                 /\ UNCHANGED restored
       [] policy = "winclass" -> /\ restored' = app_load
                                 /\ UNCHANGED <<current, layouts>>
       [] OTHER               -> UNCHANGED <<current, layouts, restored>>
  /\ UNCHANGED <<policy, active, open, desk, desktops, config>>

(***************************************************************************)
(* The session ends and a new one starts: windows, the layouts hash and    *)
(* restored_layouts are gone and xkb starts at layout 0; the config stays. *)
(***************************************************************************)
restart ==
  /\ Event
  /\ current' = 0 /\ active' = NoWindow /\ open' = {}
  /\ layouts' = [k \in DOMAIN layouts |-> NoEntry]
  /\ restored' = [a \in DOMAIN restored |-> NoEntry]
  /\ UNCHANGED <<policy, desk, desktops, config>>

Init ==
  /\ policy \in Policies
  /\ current = 0
  /\ active = NoWindow
  /\ open = {}
  /\ desk \in Desktops /\ desktops = {desk}
  /\ layouts = [k \in Windows \cup Desktops |-> NoEntry]
  /\ config \in [ConfigKeys -> (Layouts \ {0}) \cup {NoEntry}]
  /\ restored = [a \in Range(AppOf) |-> NoEntry]
  /\ events = 0

Next ==
  \/ layout_switched \/ client_activated \/ window_opened \/ window_closed
  \/ desktop_changed \/ desktop_added \/ desktop_removed \/ clear_cache
  \/ session_save \/ session_load \/ restart

Spec == Init /\ [][Next]_vars

-----------------------------------------------------------------------------
(***************************************************************************)
(* The remembered layout is the one in use: while an ordinary window is   *)
(* active under the window or application policy, or a desktop is current *)
(* under the desktop policy, its entry in the layouts hash (if any) is    *)
(* xkb's current layout.  It depends on set_layout's synchronous          *)
(* layoutChanged re-entering handle_layout_change, on the early returns    *)
(* for desktop and dock windows, and on session loads restoring entries.   *)
(***************************************************************************)
RememberedLayoutIsCurrent ==
  /\ policy \in {"window", "winclass"} /\ Ordinary(active) /\ layouts[active] /= NoEntry
       => layouts[active] = current
  /\ policy = "desktop" /\ layouts[desk] /= NoEntry => layouts[desk] = current

(***************************************************************************)
(* One layout per application: under the application policy, all          *)
(* remembered windows of the same client hold the same layout, whatever   *)
(* the order of activations, switches, closes and session restores.        *)
(***************************************************************************)
AppLayoutsConsistent ==
  policy = "winclass" =>
    \A v, w \in Windows :
      layouts[v] /= NoEntry /\ layouts[w] /= NoEntry /\ SameClient(v, w)
        => layouts[v] = layouts[w]

=============================================================================
