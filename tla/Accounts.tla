------------------------------ MODULE Accounts ------------------------------
(***************************************************************************)
(* The accounts: registration, passwords and their reset, administrators,  *)
(* one-time passcodes (TOTP) and the settings.  As in Access, a request    *)
(* decides on what it reads and then writes the columns it has changed;    *)
(* change holds one that others overtake.                                  *)
(*                                                                         *)
(* A status or a scheduled deletion bars nobody from anything in this      *)
(* program; both are kept here for what they promise.                      *)
(***************************************************************************)
EXTENDS Integers, FiniteSets

CONSTANTS
    Words,      \* the texts that are given for names and addresses
    Dotted,     \* those with a dot or a space in them
    Mails,      \* those that are addresses: something, an at sign, a domain with a dot
    Values,     \* the values of a setting
    LastUser,   \* how many users there are at most (bound)
    LastGenerated \* how many TOTP secrets and reset tokens are generated (bound)

ASSUME AccountsAssumption ==
    /\ Dotted \subseteq Words /\ Mails \subseteq Dotted /\ LastUser \in Nat \ {0}
    /\ Words # Dotted /\ Mails # {}

VARIABLES
    users,      \* the users, by id
    resets,     \* the user of each reset token that is not redeemed
    totp,       \* the passcode secret of each user that is enrolled
    proven,     \* the secrets that a passcode was given for (history)
    generated,  \* how many secrets and tokens were generated
    change      \* the write that a slow request has decided upon

accountVars == <<users, resets, totp, proven, generated, change>>

Active == 0
Disabled == 2
NoChange == [do |-> "nothing"]

NewUser(name, mail, admin) ==
    [name |-> name, mail |-> mail, admin |-> admin, status |-> Active, leaving |-> FALSE,
     language |-> CHOOSE v \in Values : TRUE]

\* The tables that a request reads.
Tables == [users |-> users, resets |-> resets, totp |-> totp, generated |-> generated]

-----------------------------------------------------------------------------
(* Lookups and checks.                                                     *)

NameAllowed(word) == word \notin Dotted

Named(d, word) == {u \in DOMAIN d.users : d.users[u].name = word}
WithMail(d, word) == {u \in DOMAIN d.users : d.users[u].mail = word}

\* one_or_none: a lookup that meets two users fails, and the request with it.
Found(d, login) == Named(d, login) \cup WithMail(d, login)
LookupSucceeds(found) == Cardinality(found) <= 1

Admins(d) == {u \in DOMAIN d.users : d.users[u].admin}
\* Disabled administrators count.
IsLastAdmin(d) == Cardinality(Admins(d)) <= 1

-----------------------------------------------------------------------------
(* What each request decides to write, on the tables d that it reads.      *)

Adding(user) == [do |-> "insert", user |-> user]
\* The columns of u that a request has changed.
Set(u, columns) == [do |-> "set", id |-> u, columns |-> columns]

RegisterUser(d, name, mail, admin) ==
    IF /\ NameAllowed(name) /\ mail \in Mails
       /\ Named(d, name) = {} /\ WithMail(d, mail) = {}
    THEN {Adding(NewUser(name, mail, admin))} ELSE {}

RequestReset(d, login) ==
    IF LookupSucceeds(Found(d, login)) THEN {[do |-> "token", id |-> u] : u \in Found(d, login)} ELSE {}

\* The password itself is left out: what matters is who may set it.
ResetPassword(d, k) == {[do |-> "redeem", token |-> t] : t \in {k} \cap DOMAIN d.resets}

\* Only what differs from what was read is written.
Changed(d, u, column, value) ==
    IF d.users[u][column] = value THEN {} ELSE {Set(u, [c \in {column} |-> value])}

RequestDeletion(d, u) == {Set(u, [leaving |-> TRUE])}
CancelDeletion(d, u) == {Set(u, [leaving |-> FALSE])}
ConfirmDeletion(d, u) == {Set(u, [leaving |-> FALSE, status |-> Disabled])}
\* One setting stands for all: each is written when the request names it.
UpdateGeneral(d, u) == UNION {Changed(d, u, "language", v) : v \in Values}

\* MUTANT of Enroll: a new secret stays enabled.
EnrollEnabled(d, u) == {[do |-> "totp", id |-> u, row |-> [secret |-> d.generated + 1,
                         enabled |-> IF u \in DOMAIN d.totp THEN d.totp[u].enabled ELSE FALSE]]}
Enroll(d, u) == {[do |-> "totp", id |-> u, row |-> [secret |-> d.generated + 1, enabled |-> FALSE]]}
\* The passcode was right for the secret that is read; only the flag is written.
Enable(d, u) == IF u \in DOMAIN d.totp THEN {[do |-> "enable", id |-> u, secret |-> d.totp[u].secret]} ELSE {}
Disable(d, u) == IF u \in DOMAIN d.totp THEN {[do |-> "disable", id |-> u]} ELSE {}

SetAdmin(d, u, admin) ==
    IF d.users[u].admin /\ ~admin /\ IsLastAdmin(d) THEN {} ELSE Changed(d, u, "admin", admin)
SetStatus(d, u, status) == Changed(d, u, "status", status)
DeleteUser(d, u) == IF d.users[u].admin /\ IsLastAdmin(d) THEN {} ELSE Changed(d, u, "status", Disabled)

\* What anybody, the user by, and by as an administrator may decide.
Anybody(d) ==
    (UNION {RegisterUser(d, n, m, FALSE) : n \in Words, m \in Words})
      \cup (UNION {RequestReset(d, w) : w \in Words}) \cup UNION {ResetPassword(d, k) : k \in DOMAIN d.resets}
OnHimself(d, by) ==
    UNION {RequestDeletion(d, by), CancelDeletion(d, by), ConfirmDeletion(d, by), UpdateGeneral(d, by),
           Enroll(d, by), Enable(d, by), Disable(d, by)}
AsAdmin(d, by) ==
    IF ~d.users[by].admin THEN {}
    ELSE (UNION {UNION {SetAdmin(d, u, a), DeleteUser(d, u)} : u \in DOMAIN d.users, a \in BOOLEAN})
           \cup (UNION {SetStatus(d, u, s) : u \in DOMAIN d.users, s \in {Active, Disabled}})
           \cup UNION {RegisterUser(d, n, m, TRUE) : n \in Words, m \in Words}
Changes(d) == Anybody(d) \cup UNION {OnHimself(d, by) \cup AsAdmin(d, by) : by \in DOMAIN d.users}

-----------------------------------------------------------------------------
(* The writes.  A row that is gone makes an update fail; names are unique. *)

With(f, x, v) == [y \in DOMAIN f \cup {x} |-> IF y = x THEN v ELSE f[y]]
Removed(f, x) == [y \in DOMAIN f \ {x} |-> f[y]]

\* MUTANT of Merged: settings that are not named fall back to their default.
MergedOver(old, columns) ==
    [c \in DOMAIN old |-> IF c \in DOMAIN columns THEN columns[c]
                         ELSE IF c = "language" THEN CHOOSE v \in Values : TRUE ELSE old[c]]
Merged(old, columns) == [c \in DOMAIN old |-> IF c \in DOMAIN columns THEN columns[c] ELSE old[c]]

AfterWrite(d, w) ==
    CASE w.do = "insert" -> IF Named(d, w.user.name) # {} THEN d
                            ELSE [d EXCEPT !.users = With(@, Cardinality(DOMAIN @) + 1, w.user)]
      [] w.do = "set" -> [d EXCEPT !.users[w.id] = Merged(@, w.columns)]
      [] w.do = "token" -> [d EXCEPT !.resets = With(@, d.generated + 1, w.id), !.generated = @ + 1]
      [] w.do = "redeem" -> [d EXCEPT !.resets = Removed(@, w.token)]
      [] w.do = "totp" -> [d EXCEPT !.totp = With(@, w.id, w.row), !.generated = @ + 1]
      [] w.do = "enable" -> IF w.id \in DOMAIN d.totp THEN [d EXCEPT !.totp[w.id].enabled = TRUE] ELSE d
      [] w.do = "disable" -> [d EXCEPT !.totp = Removed(@, w.id)]

\* A secret was shown to be known when a passcode for it was right.
Shown(w) == IF w.do = "enable" THEN {w.secret} ELSE {}

WithinBounds(w) == /\ w.do = "insert" => Cardinality(DOMAIN users) < LastUser
                   /\ w.do \in {"totp", "token"} => generated < LastGenerated

\* A secret generated at the time of the read keeps apart from later ones.
Fresh(w) == IF w.do = "totp" THEN [w EXCEPT !.row.secret = generated + 1] ELSE w

CommitChange(w) ==
    LET after == AfterWrite(Tables, Fresh(w))
    IN  /\ WithinBounds(w)
        /\ users' = after.users /\ resets' = after.resets /\ totp' = after.totp
        /\ generated' = after.generated /\ proven' = proven \cup Shown(w)

ServeAccount == \E w \in Changes(Tables) : CommitChange(w) /\ UNCHANGED change

ReadAccount == /\ change = NoChange
        /\ \E w \in Changes(Tables) : change' = w
        /\ UNCHANGED <<users, resets, totp, proven, generated>>

WriteAccount == change # NoChange /\ CommitChange(change) /\ change' = NoChange

AccountsInit ==
    /\ users = [u \in {1} |-> NewUser(CHOOSE w \in Words : w \notin Dotted, CHOOSE m \in Mails : TRUE, TRUE)]
    /\ resets = [k \in {} |-> 1] /\ totp = [u \in {} |-> NoChange]
    /\ proven = {} /\ generated = 0 /\ change = NoChange

AccountsNext == ServeAccount \/ ReadAccount \/ WriteAccount
AccountsSpec == AccountsInit /\ [][AccountsNext]_accountVars

-----------------------------------------------------------------------------
(* Properties.                                                             *)

\* Whatever is typed into the form for a lost password finds one user at most.
LookupsSingle(d) == \A w \in Words : LookupSucceeds(Found(d, w))

Enabled(d) == {d.totp[u].secret : u \in {x \in DOMAIN d.totp : d.totp[x].enabled}}

Sound(d, shown) == Admins(d) # {} /\ LookupsSingle(d) /\ Enabled(d) \subseteq shown

\* Of all that a request may do alone: there stays an administrator, a login finds
\* one user at most although names and addresses are looked up together, and a
\* secret is live only once a passcode for it was given.  (Requests that overlap
\* can break each: none of the three is a constraint of the database.)
AloneKeepsSound ==
    change = NoChange /\ Sound(Tables, proven) =>
      \A w \in Changes(Tables) : Sound(AfterWrite(Tables, w), proven \cup Shown(w))

\* A slow request takes nothing back that was written in the meantime, but for the
\* columns that it names itself: an administrator set, a name, another setting.
NothingTakenBack ==
    [][\A u \in DOMAIN users : \A c \in DOMAIN users[u] :
          users'[u][c] # users[u][c] /\ change # NoChange /\ change' = NoChange =>
            change.do = "set" /\ c \in DOMAIN change.columns]_accountVars
=============================================================================
