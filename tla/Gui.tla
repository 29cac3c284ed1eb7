-------------------------------- MODULE Gui ---------------------------------
(***************************************************************************)
(* The terminal (cli/cmdui.go).  The main goroutine makes DefaultGui, its  *)
(* views and then serves MainLoop, while the bot's goroutine, started just *)
(* before it (main.go:90-92), already updates them.  gocui, external, runs *)
(* each update handed to Gui.Update in the main loop, by way of a          *)
(* goroutine of its own: in any order.  The list of auctions alone is      *)
(* cleared and printed by the bot's goroutine itself.                      *)
(***************************************************************************)
EXTENDS Naturals, Sequences, Bags

CONSTANTS
    Figures,   \* what balances, or profits, may be
    NoAuctions,\* the line "No Auctions"
    MaxPending \* bound: updates on their way to the main loop

ASSUME GuiAssumption == MaxPending \in Nat \ {0} /\ NoAuctions \notin Figures

View == {"auction", "pnl", "inventory"}

VARIABLES
    gui,     \* DefaultGui: "none", "made" without its views, "views", "loop"
    pending, \* updates on their way, a bag: [view, shows]
    screen,  \* what is printed in each view since it was cleared
    doomed,  \* whether an update met no DefaultGui: its goroutine will panic
    latest,  \* observed: what each view was last updated to
    raced    \* observed: views updated with an update of them on its way

guiVars == <<gui, pending, screen, doomed, latest, raced>>

Blank == [v \in View |-> <<>>]

GuiInit ==
    /\ gui = "none"
    /\ pending = EmptyBag
    /\ screen = Blank
    /\ doomed = FALSE
    /\ latest = Blank
    /\ raced = {}

\* The terminal ends with its process.
EndGui ==
    /\ gui' = "none"
    /\ pending' = EmptyBag
    /\ screen' = Blank
    /\ doomed' = FALSE
    /\ latest' = Blank
    /\ raced' = {}

-----------------------------------------------------------------------------
(* The main goroutine *)

NewGui ==
    /\ gui = "none"
    /\ gui' = "made"
    /\ UNCHANGED <<pending, screen, doomed, latest, raced>>

SetViews ==
    /\ gui = "made"
    /\ gui' = "views"
    /\ UNCHANGED <<pending, screen, doomed, latest, raced>>

MainLoop ==
    /\ gui = "views"
    /\ gui' = "loop"
    /\ UNCHANGED <<pending, screen, doomed, latest, raced>>

\* NoAuctions goes below what is there, figures replace it.
AppliesTo(shows, u) == IF u.view = "auction" THEN shows \o u.shows ELSE u.shows

\* Faulty: the view is not cleared first.
PrintBelow(shows, u) == shows \o u.shows

Printed(shows, u) == AppliesTo(shows, u)

Apply(u) ==
    /\ gui = "loop"
    /\ BagIn(u, pending)
    /\ pending' = pending (-) SetToBag({u})
    /\ screen' = [screen EXCEPT ![u.view] = Printed(@, u)]
    /\ UNCHANGED <<gui, doomed, latest, raced>>

-----------------------------------------------------------------------------
(* The bot's goroutine *)

OnItsWay(v) == \E u \in BagToSet(pending) : u.view = v

Observes(v, shows) ==
    /\ latest' = [latest EXCEPT ![v] = shows]
    /\ raced' = IF OnItsWay(v) THEN raced \cup {v} ELSE raced \ {v}

\* DefaultGui.Update starts a goroutine that hands the update on; without a
\* DefaultGui that goroutine panics.
Update(v, shows) ==
    IF gui = "none"
    THEN doomed' = TRUE /\ UNCHANGED pending
    ELSE /\ BagCardinality(pending) < MaxPending
         /\ pending' = pending (+) SetToBag({[view |-> v, shows |-> shows]})
         /\ UNCHANGED doomed

\* UpdatePnlView, UpdateInventoryView.
UpdateView(v) ==
    \E n \in Figures :
        /\ Update(v, <<n>>)
        /\ Observes(v, <<n>>)
        /\ UNCHANGED <<gui, screen>>

\* Faulty: the list is printed below the one before.
ListBelow(list) == screen' = [screen EXCEPT !["auction"] = @ \o list]

ListShown(list) == screen' = [screen EXCEPT !["auction"] = list]

\* Faulty: an empty list has no line.
LinesAsGiven(list) == list

Lines(list) == IF list = <<>> THEN <<NoAuctions>> ELSE list

\* Not called without DefaultGui: see Round.  Without its view it only logs.
UpdateAuctionView(list) ==
    /\ gui # "none"
    /\ IF gui = "made"
       THEN UNCHANGED guiVars
       ELSE /\ ListShown(list)
            /\ IF list = <<>>
               THEN Update("auction", Lines(list))
               ELSE UNCHANGED <<pending, doomed>>
            /\ Observes("auction", Lines(list))
            /\ UNCHANGED gui

-----------------------------------------------------------------------------
(* Properties *)

GuiTypeOK ==
    /\ gui \in {"none", "made", "views", "loop"}
    /\ IsABag(pending)
    /\ \A u \in BagToSet(pending) : u.view \in View /\ Len(u.shows) = 1
    /\ DOMAIN screen = View /\ DOMAIN latest = View
    /\ doomed \in BOOLEAN
    /\ raced \subseteq View

\* A view with no update on its way shows what it was last updated to, and no
\* line of an earlier update, unless that update overtook another: figures
\* are cleared and printed in one event of the main loop, auctions are
\* cleared before the main loop is told that there are none (cmdui.go:82-138).
ScreenIsCurrent ==
    \A v \in View \ raced : ~ doomed /\ ~ OnItsWay(v) => screen[v] = latest[v]

\* Unless updates of a view have overtaken each other, at most one is on its
\* way, and it will make the view show what it was last updated to.
OneOnItsWay ==
    \A u \in BagToSet(pending) :
        u.view \notin raced /\ ~ doomed =>
            /\ pending[u] = 1
            /\ Printed(screen[u.view], u) = latest[u.view]
            /\ \A w \in BagToSet(pending) : w.view = u.view => w = u
=============================================================================
