-------------------------------- MODULE Login --------------------------------
(* getty.c, inc/auth.h and su.c: who is let in, and the seat, the device   *)
(* nodes a login on a tty is given and that are to be gone after it. init  *)
(* starts getty again whenever it ends, and devices come and go.           *)
EXTENDS Naturals, FiniteSets

CONSTANTS Names,        \* names in SEAT_SOURCES
          Tries,        \* AUTH_TRIES
          MaxLogins,    \* bound: how often getty or su runs
          MaxPlugs      \* bound: how often a device comes or goes

LoginAssumption == {Tries, MaxLogins, MaxPlugs} \subseteq Nat

VARIABLES who,          \* "getty" or "su"
          pc,
          link,         \* securetty: "none", "here", "other", "dead"
          tries,        \* wrong codes so far
          dev,          \* the device that has a name now, or 0
          path,         \* seat.path is set
          seat,         \* the node of that name on the seat, or 0
          todo,         \* names the iteration has not come to
          logins, plugs,
          cut,          \* history: not all was taken away since the last listing
          aside         \* nodes the user has in a directory of theirs on the seat

vars == <<who, pc, link, tries, dev, path, seat, todo, logins, plugs, cut, aside>>

NoSeat == [n \in Names |-> 0]

TypeOK ==
    /\ who \in {"getty", "su"}
    /\ pc \in {"off", "user", "auth", "ask", "seat", "add", "drop user", "shell", "take away"}
    /\ link \in {"none", "here", "other", "dead"}
    /\ tries \in 0..Tries
    /\ {dev, seat} \subseteq [Names -> 0..(MaxPlugs + 1)]
    /\ path \in BOOLEAN /\ cut \in BOOLEAN /\ todo \subseteq Names /\ aside \subseteq 1..(MaxPlugs + 1)

Init == /\ who = "getty" /\ pc = "off" /\ link \in {"none", "here", "other", "dead"}
        /\ tries = 0 /\ dev \in [Names -> {0, 1}] /\ path = FALSE
        /\ seat = NoSeat /\ todo = {} /\ logins = 0 /\ plugs = 0 /\ cut = FALSE /\ aside = {}

Goes(to) == pc' = to /\ UNCHANGED <<who, link, tries, dev, logins, plugs>>
Same == UNCHANGED <<path, seat, todo, cut, aside>>
Ends == Goes("off")

-----------------------------------------------------------------------------

\* prog_getty(): the tty is opened first of all; su becomes root first of all.
Start == /\ pc = "off" /\ logins < MaxLogins
         /\ \E w \in {"getty", "su"} :
              who' = w /\ pc' = (IF w = "su" THEN "user" ELSE "auth")
         /\ logins' = logins + 1 /\ tries' = 0 /\ path' = FALSE /\ todo' = {}
         /\ UNCHANGED <<link, dev, seat, plugs, cut, aside>>

StartFails == pc \in {"user", "auth"} /\ Ends /\ Same
BecomeRoot == pc = "user" /\ Goes("auth") /\ Same

\* Where somebody who was let in goes on.
Inside == IF who = "su" THEN "shell" ELSE "seat"

\* auth_check(): no secure tty, or this is it; otherwise a code is shown there.
AuthCheck == /\ pc = "auth"
             /\ IF link \in {"none", "here"} THEN Goes(Inside) ELSE Goes("ask")
             /\ Same

\* getrandom() or the secure tty fails: nobody is let in.
NoCode == pc = "ask" /\ tries = 0 /\ Ends /\ Same

RightCode == pc = "ask" /\ link = "other" /\ Goes(Inside) /\ Same

WrongCode == /\ pc = "ask" /\ link = "other"
             /\ tries' = tries + 1
             /\ pc' = IF tries + 1 = Tries THEN "off" ELSE "ask"
             /\ Same /\ UNCHANGED <<who, link, dev, logins, plugs>>

\* The input ends, is interrupted, or the line is longer than a code.
NoLine == pc = "ask" /\ link = "other" /\ Ends /\ Same

-----------------------------------------------------------------------------
(* seat_make(): the directory, then a node for every device there is.       *)

NoSeatMade == /\ pc = "seat" /\ Goes("drop user") /\ Same

SeatMake == /\ pc = "seat"
            /\ path' = TRUE /\ todo' = Names
            /\ Goes("add") /\ UNCHANGED <<seat, cut, aside>>

\* mknod(): a node that was left there stays as it is.
SeatAdd == /\ pc = "add" /\ todo # {}
           /\ \E n \in todo :
                /\ todo' = todo \ {n}
                /\ \/ seat' = [seat EXCEPT ![n] = IF @ = 0 THEN dev[n] ELSE @]
                   \/ seat' = seat
           /\ UNCHANGED <<who, pc, link, tries, dev, path, logins, plugs, cut, aside>>

SeatMade == pc = "add" /\ todo = {} /\ Goes("drop user") /\ Same

\* users_changeuser(): getty ends without going past seat_take_away().
ChangeUser == pc = "drop user" /\ Goes("shell") /\ Same
ChangeUserFails == /\ pc = "drop user" /\ Ends
                   /\ cut' = (cut \/ path) /\ UNCHANGED <<path, seat, todo, aside>>

-----------------------------------------------------------------------------
(* The seat is the user's: none can be made there, but nodes may be removed, *)
(* or put into a directory of the user's own, and taken from there again.    *)

Users == UNCHANGED <<who, pc, link, tries, dev, path, todo, logins, plugs>>

UserRemoves == /\ pc \in {"shell", "take away"}
               /\ \E n \in Names :
                    /\ seat' = [seat EXCEPT ![n] = 0]
                    /\ aside' \in {aside, aside \cup ({seat[n]} \ {0})}
               /\ cut' = cut /\ Users

\* A process of the user's may outlive the login, and the login be the next.
UserBrings == \E n \in Names, d \in aside :
                 /\ seat[n] = 0
                 /\ seat' = [seat EXCEPT ![n] = d] /\ aside' = aside \ {d}
                 /\ cut' = TRUE /\ Users

-----------------------------------------------------------------------------
(* seat_take_away(), which has become the user by then.                     *)

\* Mutant: only the devices there are now are looked for on the seat.
OnTheSeatNow == {n \in Names : seat[n] # 0 /\ dev[n] # 0}

\* What seat_take_away() goes through.
OnTheSeat == {n \in Names : seat[n] # 0}

\* The shell ends, or could not be started; su has become it.
ShellEnds == /\ pc = "shell"
             /\ IF path THEN todo' = OnTheSeat /\ cut' = FALSE /\ Goes("take away")
                ELSE UNCHANGED <<todo, cut>> /\ Ends
             /\ UNCHANGED <<path, seat, aside>>

\* unlinkat() fails if the user has taken the right to write from the directory,
\* and what cannot be removed is passed over.
SeatDrop == /\ pc = "take away" /\ todo # {}
            /\ \E n \in todo :
                 /\ todo' = todo \ {n}
                 /\ \/ seat' = [seat EXCEPT ![n] = 0] /\ cut' = cut
                    \/ seat' = seat /\ cut' = TRUE
            /\ UNCHANGED <<who, pc, link, tries, dev, path, logins, plugs, aside>>

\* The directory can not be opened, or no further be read: nobody asks.
SeatNotRead == pc = "take away" /\ Ends /\ cut' = TRUE /\ UNCHANGED <<path, seat, todo, aside>>

SeatTaken == pc = "take away" /\ todo = {} /\ Ends /\ Same

\* The terminal hangs up: SIGHUP is not caught, and getty is gone.
Hangup == /\ pc # "off" /\ Ends
          /\ cut' = (cut \/ path) /\ UNCHANGED <<path, seat, todo, aside>>

\* A device comes, as another than any before, or goes.
Plug == /\ plugs < MaxPlugs
        /\ plugs' = plugs + 1
        /\ \E n \in Names : dev' = [dev EXCEPT ![n] = IF @ = 0 THEN plugs + 2 ELSE 0]
        /\ UNCHANGED <<who, pc, link, tries, path, seat, todo, logins, cut, aside>>

Login == \/ Start \/ StartFails \/ BecomeRoot \/ AuthCheck \/ NoCode \/ RightCode \/ WrongCode \/ NoLine
         \/ NoSeatMade \/ SeatMake \/ SeatAdd \/ SeatMade \/ ChangeUser \/ ChangeUserFails
         \/ ShellEnds \/ SeatDrop \/ SeatNotRead \/ SeatTaken
Next == Login \/ UserRemoves \/ UserBrings \/ Hangup \/ Plug

Spec == Init /\ [][Next]_vars

-----------------------------------------------------------------------------

\* "The login is over, so the hardware isn't theirs": nobody logged in, nothing
\* on the seat, whatever devices went while they were. What leaves nodes is a
\* hangup, a failure to change the user, a directory the user has made unreadable
\* or not writable, and a node put back by the user; and the next login that gets
\* as far as listing its seat, and fails at nothing, takes these away as well,
\* however they came there (seat_make, seat_take_away). Nothing is promised of
\* nodes in a directory of the user's own: no login ever looks into it.
HardwareGoes == pc = "off" /\ ~cut => seat = NoSeat

=============================================================================
