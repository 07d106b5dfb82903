---------------------------- MODULE SharedNotes ----------------------------
(***************************************************************************)
(* Notes that their owners share with a group, and the groups the           *)
(* administrators of a tenant keep.                                         *)
(*                                                                          *)
(* Who reads a note is decided by its row and by the rows of the groups; a  *)
(* note knows its group by the id, and nothing else.  An update reads the   *)
(* note and the memberships of its owner in a snapshot and writes later.    *)
(***************************************************************************)
EXTENDS Service

CONSTANTS
    Groups,        \* ids of groups
    Notes,
    MaxFounded,    \* bound of the groups founded
    Sqlite,        \* the database lets a dangling reference be, and an id come back
    NoGroup,       \* no group, or no row of one yet
    Dissolved,     \* no row of it any more
    NoNote, NoEdit

ASSUME NotesAssumption == Sqlite \in BOOLEAN /\ MaxFounded \in Nat /\ NoGroup \notin Groups

Share == Groups \cup {NoGroup}
Note == [owner: Users, share: Share]
Edit == [note: Notes, was: Share, share: Share, chosen: 0..MaxFounded]

ASSUME NotesNullsAssumption ==
    /\ \A members \in SUBSET Users : members # NoGroup /\ members # Dissolved
    /\ NoGroup # Dissolved
    /\ NoNote \notin Note /\ NoEdit \notin Edit

VARIABLES
    group,       \* user_groups: Groups -> its members, NoGroup or Dissolved
    nth,         \* Groups -> which foundation has the id, counted over all groups
    note,        \* notes: Notes -> [owner, share], or NoNote
    edit,        \* Requests -> the update under way, or NoEdit
    \* history, read by the properties and by no action:
    meant        \* Notes -> which foundation the owner chose for it, being a member; 0 for none

noteVars == <<now, group, nth, note, edit, meant>>

Stands(g) == g # NoGroup /\ group[g] \notin {NoGroup, Dissolved}
MembersOf(g) == IF Stands(g) THEN group[g] ELSE {}

\* The state has its types; with foreign keys, what a note is shared with is there.
NotesTypeOK ==
    /\ group \in [Groups -> (SUBSET Users) \cup {NoGroup, Dissolved}]
    /\ nth \in [Groups -> 0..MaxFounded]
    /\ note \in [Notes -> Note \cup {NoNote}]
    /\ edit \in [Requests -> Edit \cup {NoEdit}]
    /\ meant \in [Notes -> 0..MaxFounded]
    /\ ~Sqlite => \A n \in Notes : note[n] # NoNote /\ note[n].share # NoGroup => Stands(note[n].share)

NotesInit ==
    /\ now = 0
    /\ group = [g \in Groups |-> NoGroup] /\ nth = [g \in Groups |-> 0]
    /\ note = [n \in Notes |-> NoNote]
    /\ edit = [r \in Requests |-> NoEdit]
    /\ meant = [n \in Notes |-> 0]

-----------------------------------------------------------------------------
(* Groups.                                                                  *)

Latest == CHOOSE k \in 0..MaxFounded : /\ \A g \in Groups : nth[g] <= k
                                       /\ k = 0 \/ \E g \in Groups : nth[g] = k

CreateGroup(g, members) ==
    /\ group[g] = NoGroup \/ (Sqlite /\ group[g] = Dissolved)
    /\ Latest < MaxFounded
    /\ group' = [group EXCEPT ![g] = members]
    /\ nth' = [nth EXCEPT ![g] = Latest + 1]
    /\ UNCHANGED <<now, note, edit, meant>>

SetMembers(g, members) ==
    /\ Stands(g) /\ group[g] # members
    /\ group' = [group EXCEPT ![g] = members]
    /\ UNCHANGED <<now, nth, note, edit, meant>>

\* Variant: a note keeps what it was shared with.
UnsharedNever(g) == note

\* The members are taken out by hand; the notes are left to ON DELETE SET NULL.
Unshared(g) ==
    [n \in Notes |-> IF note[n] # NoNote /\ note[n].share = g /\ ~Sqlite
                     THEN [note[n] EXCEPT !.share = NoGroup] ELSE note[n]]

DeleteGroup(g) ==
    /\ Stands(g)
    /\ group' = [group EXCEPT ![g] = Dissolved]
    /\ note' = Unshared(g)
    /\ UNCHANGED <<now, nth, edit, meant>>

-----------------------------------------------------------------------------
(* Notes.                                                                   *)

ReadableBy(n, u) == note[n] # NoNote /\ (note[n].owner = u \/ u \in MembersOf(note[n].share))

CanShareWith(u, g) == g = NoGroup \/ u \in MembersOf(g)

\* Variant: whoever has shared the note may share it anywhere.
ContentForOnceShared(u, was, g) == was # NoGroup \/ CanShareWith(u, g)

\* What it is shared with may stay, also when the owner has left the group.
ContentFor(u, was, g) == was = g \/ CanShareWith(u, g)

Chosen(u, g) == IF u \in MembersOf(g) THEN nth[g] ELSE 0

CreateNote(n, u, g) ==
    /\ note[n] = NoNote /\ ContentFor(u, NoGroup, g)
    /\ note' = [note EXCEPT ![n] = [owner |-> u, share |-> g]]
    /\ meant' = [meant EXCEPT ![n] = Chosen(u, g)]
    /\ UNCHANGED <<now, group, nth, edit>>

\* Whoever can read it but does not own it is told so; the others, that it is not there.
OpenNote(r, n, g) ==
    /\ edit[r] = NoEdit /\ note[n] # NoNote
    /\ ContentFor(note[n].owner, note[n].share, g)
    /\ edit' = [edit EXCEPT ![r] = [note |-> n, was |-> note[n].share, share |-> g,
                                    chosen |-> Chosen(note[n].owner, g)]]
    /\ UNCHANGED <<now, group, nth, note, meant>>

\* Variant: every column is written.
ColumnsAll(x) == x.share

\* Only what has changed is written: a share that was kept is not written again.
Columns(x) == IF x.share = x.was THEN note[x.note].share ELSE x.share

\* The key of user_groups: a group that went meanwhile makes the update fail.
UpdateNote(r) ==
    LET x == edit[r]
    IN  /\ x # NoEdit
        /\ IF note[x.note] # NoNote /\ (Sqlite \/ Columns(x) = NoGroup \/ Stands(Columns(x)))
           THEN /\ note' = [note EXCEPT ![x.note].share = Columns(x)]
                /\ meant' = IF x.share = x.was THEN meant ELSE [meant EXCEPT ![x.note] = x.chosen]
           ELSE UNCHANGED <<note, meant>>
        /\ edit' = [edit EXCEPT ![r] = NoEdit]
        /\ UNCHANGED <<now, group, nth>>

RemoveNote(n) ==
    /\ note[n] # NoNote
    /\ note' = [note EXCEPT ![n] = NoNote] /\ meant' = [meant EXCEPT ![n] = 0]
    /\ edit' = [r \in Requests |-> IF edit[r] # NoEdit /\ edit[r].note = n THEN NoEdit ELSE edit[r]]
    /\ UNCHANGED <<now, group, nth>>

NotesNext ==
    \/ \E g \in Groups : \/ DeleteGroup(g)
                         \/ \E members \in SUBSET Users : CreateGroup(g, members) \/ SetMembers(g, members)
    \/ \E n \in Notes : \/ RemoveNote(n)
                        \/ \E g \in Share : \/ \E u \in Users : CreateNote(n, u, g)
                                            \/ \E r \in Requests : OpenNote(r, n, g)
    \/ \E r \in Requests : UpdateNote(r)

NotesSpec == NotesInit /\ [][NotesNext]_noteVars
-----------------------------------------------------------------------------
\* Whoever reads a note that is not theirs is in a group that its owner, being in
\* it, chose for it -- that very group, not one that has come to its id.
SharesAreMeant ==
    \A n \in Notes : \A u \in Users :
        ReadableBy(n, u) /\ note[n].owner # u => meant[n] = nth[note[n].share]

\* An update that keeps the share, as when the title is corrected, brings no share
\* back that was withdrawn while it was under way.
KeptSharesAreNotRevived ==
    [][\A r \in Requests : UpdateNote(r) /\ edit[r].share = edit[r].was =>
         note'[edit[r].note] = note[edit[r].note]]_noteVars

\* A note is seen by those its owner last meant to see it.
NotesHold == []SharesAreMeant /\ KeptSharesAreNotRevived
=============================================================================
