--------------------------------- MODULE Seeding -------------------------------
(***************************************************************************)
(* The jobs that fill a database: seed_demo (roles, rooms, rates, a tax    *)
(* rule, one reservation) and seed_sample_data (ten reservations around    *)
(* today, seven of them in a room).  Each job is one transaction           *)
(* (session_scope): it ends with everything it wrote, or, when one of its  *)
(* operations is refused, with nothing.  In between staff work with what   *)
(* the jobs made.                                                          *)
(***************************************************************************)
EXTENDS DateRange, FiniteSets

CONSTANTS
  HORIZON,         \* nights priced ahead, 180 in the code
  MaxDay,          \* bound: the last day a job runs on
  MaxBatches,      \* bound: the sample batches
  Guest,           \* bound: the sample guests whose stays are followed
  Spare,           \* bound: other rooms staff move them to
  None

VARIABLES
  today,
  admin,           \* the admin account exists
  roles, rates, gst,  \* "none", "seeded", or "edited" by staff since
  pricedUntil,     \* nights before this day have a rate
  guests,          \* "none", "some", or "sample" once an @sample.test guest is there
  demoReservations,
  stays,           \* the stays of <<guest, batch>> that are not over for good
  batches,
  last             \* the last job: [job, force, done, full], or None

setup == <<admin, roles, rates, gst, pricedUntil, demoReservations>>
vars == <<today, setup, guests, stays, batches, last>>

--------------------------------------------------------------------------------
(* seed_demo                                                               *)

Ended(job, force, done, full) ==
  last' = [job |-> job, force |-> force, done |-> done, full |-> full]

(* MUTANT of DemoReservation: the guests are not looked at.                *)
DemoReservationAlways ==
  demoReservations' = demoReservations + 1 /\ guests' = IF guests = "none" THEN "some" ELSE guests

(* One reservation for the first guest of an empty guest book.             *)
DemoReservation ==
  IF guests = "none"
  THEN demoReservations' = demoReservations + 1 /\ guests' = "some"
  ELSE UNCHANGED <<demoReservations, guests>>

(* The permissions of the four roles and the rates are written again, and  *)
(* a GST rule that is there is made inclusive again.                       *)
SeedRoles == roles' = "seeded"
SeedRates == rates' = "seeded" /\ pricedUntil' = today + HORIZON
SeedTax == gst' = "seeded"

(* An admin who exists is logged, and the job goes on, forced or not.      *)
SeedDemo(force) ==
  /\ admin' = TRUE
  /\ SeedRoles
  /\ SeedRates
  /\ SeedTax
  /\ DemoReservation
  /\ Ended("seed_demo", force, TRUE, FALSE)
  /\ UNCHANGED <<today, stays, batches>>

--------------------------------------------------------------------------------
(* seed_sample_data                                                        *)

Booked(room, from, to, status) == [room |-> room, from |-> from, to |-> to, status |-> status]

(* One batch, in days from today.  Two more stays are checked out by the   *)
(* job itself, which leaves no one who may undo it (undo_event).           *)
Sample ==
  [Sofia   |-> Booked(105, -2, 0, "in_house"),  Diego  |-> Booked(203, -1, 2, "in_house"),
   Tomasz  |-> Booked(106, 0, 3, "confirmed"),  Amara  |-> Booked(204, 1, 3, "confirmed"),
   Haruto  |-> Booked(301, 2, 4, "confirmed"),  Ines   |-> Booked(None, 3, 6, "confirmed"),
   Leilani |-> Booked(None, 0, 2, "confirmed"), Callum |-> Booked(None, -1, 1, "confirmed")]

LastNight == 6

Batch == (Guest \cap DOMAIN Sample) \X {batches + 1}

Shifted(i) == [Sample[i[1]] EXCEPT !.from = @ + today, !.to = @ + today]

SameRoom(s, o) == s.room = o.room /\ s.room # None

Active(s) == s.status # "checked_out"

(* MUTANT of Free: only stays in house take a room.                        *)
FreeOfGuests(i, s) ==
  \A j \in DOMAIN stays \ {i} :
    SameRoom(s, stays[j]) /\ stays[j].status = "in_house"
      => ~Overlaps(s.from, s.to, stays[j].from, stays[j].to)

(* assign_room asks whether another stay that is not over has the room of  *)
(* s, which is or becomes the stay i (_room_conflicts).                    *)
Free(i, s) ==
  \A j \in DOMAIN stays \ {i} :
    SameRoom(s, stays[j]) /\ Active(stays[j])
      => ~Overlaps(s.from, s.to, stays[j].from, stays[j].to)

(* Each booking is priced night by night; today's rate is carried back to  *)
(* the nights before.                                                      *)
Priced == rates # "none" /\ today + LastNight <= pricedUntil

CanSeedSample == Priced /\ \A i \in Batch : Free(i, Shifted(i))

SeedSample(force) ==
  /\ guests = "sample" => force
  /\ CanSeedSample
  /\ batches < MaxBatches
  /\ stays' = [i \in DOMAIN stays \cup Batch |-> IF i \in Batch THEN Shifted(i) ELSE stays[i]]
  /\ batches' = batches + 1
  /\ guests' = "sample"
  /\ Ended("seed_sample_data", force, TRUE, FALSE)
  /\ UNCHANGED <<today, setup>>

(* One refusal, of a quote, of a room or for lack of availability, rolls   *)
(* the whole batch back.  full: bookings that are not followed here, or    *)
(* stays of the past whose nights the ledger still counts, hold a room or  *)
(* the last unit of a type.                                                *)
SampleRefused(force, full) ==
  /\ guests = "sample" => force
  /\ full \/ ~CanSeedSample
  /\ Ended("seed_sample_data", force, FALSE, full)
  /\ UNCHANGED <<today, setup, guests, stays, batches>>

--------------------------------------------------------------------------------
(* What staff do in between.                                               *)

EditRoles ==
  /\ roles = "seeded" /\ roles' = "edited"
  /\ last' = None
  /\ UNCHANGED <<today, admin, rates, gst, pricedUntil, guests, demoReservations, stays, batches>>

EditRates ==
  /\ rates = "seeded" /\ rates' = "edited"
  /\ last' = None
  /\ UNCHANGED <<today, admin, roles, gst, pricedUntil, guests, demoReservations, stays, batches>>

(* The tax is to be added to the prices from now on.                       *)
EditTax ==
  /\ gst = "seeded" /\ gst' = "edited"
  /\ last' = None
  /\ UNCHANGED <<today, admin, roles, rates, pricedUntil, guests, demoReservations, stays, batches>>

(* The stay i becomes s.                                                   *)
Set(i, s) ==
  /\ stays' = [stays EXCEPT ![i] = s]
  /\ last' = None
  /\ UNCHANGED <<today, setup, guests, batches>>

SetStatus(i, from, to) == stays[i].status = from /\ Set(i, [stays[i] EXCEPT !.status = to])

SetRoom(i, r) == Set(i, [stays[i] EXCEPT !.room = r])

CheckIn(i) == stays[i].room # None /\ SetStatus(i, "confirmed", "in_house")
CheckOut(i) == SetStatus(i, "in_house", "checked_out")

(* Only its actor may undo an event, and the job's have none.              *)
UndoCheckIn(i) == Sample[i[1]].status = "confirmed" /\ SetStatus(i, "in_house", "confirmed")

(* The guest is back in the room, whoever has it by now.                   *)
UndoCheckOut(i) == SetStatus(i, "checked_out", "in_house")

(* A room is given, changed, or, by an undo, changed back.                 *)
AssignRoom(i, r) ==
  /\ Active(stays[i])
  /\ Free(i, [stays[i] EXCEPT !.room = r])
  /\ SetRoom(i, r)

(* The undo of a first assignment.                                         *)
ReleaseRoom(i) ==
  /\ Sample[i[1]].room = None /\ stays[i].room # None
  /\ stays[i].status # "in_house"
  /\ SetRoom(i, None)

(* A booking is cancelled or a no-show, or gets other lines; what becomes  *)
(* of those is not followed.                                               *)
GiveUp(i) ==
  /\ stays[i].status = "confirmed"
  /\ stays' = [j \in DOMAIN stays \ {i} |-> stays[j]]
  /\ last' = None
  /\ UNCHANGED <<today, setup, guests, batches>>

NextDay ==
  /\ today < MaxDay
  /\ today' = today + 1
  /\ last' = None
  /\ UNCHANGED <<setup, guests, stays, batches>>

Init ==
  /\ today = 0 /\ admin = FALSE /\ roles = "none" /\ rates = "none" /\ gst = "none"
  /\ pricedUntil = 0
  /\ guests = "none" /\ demoReservations = 0 /\ stays = [i \in {} |-> None]
  /\ batches = 0 /\ last = None

SampleRoom == Spare \cup ({Sample[g].room : g \in Guest \cap DOMAIN Sample} \ {None})

StaffAct(i) ==
  \/ CheckIn(i) \/ UndoCheckIn(i) \/ CheckOut(i) \/ UndoCheckOut(i)
  \/ \E r \in SampleRoom : AssignRoom(i, r)
  \/ ReleaseRoom(i) \/ GiveUp(i)

Next ==
  \/ \E force \in BOOLEAN : SeedDemo(force) \/ SeedSample(force)
  \/ \E force, full \in BOOLEAN : SampleRefused(force, full)
  \/ EditRoles \/ EditRates \/ EditTax \/ NextDay
  \/ \E i \in DOMAIN stays : StaffAct(i)

Spec == Init /\ [][Next]_vars

--------------------------------------------------------------------------------
(* Properties.                                                             *)

(* The pairs of sample stays that have one room at once.                   *)
Shared ==
  {p \in (DOMAIN stays) \X (DOMAIN stays) :
     LET s == stays[p[1]]
         o == stays[p[2]]
     IN  /\ p[1] # p[2]
         /\ SameRoom(s, o) /\ Active(s) /\ Active(o)
         /\ Overlaps(s.from, s.to, o.from, o.to)}

(* Batches of different days name the same rooms, and staff check guests   *)
(* in and out, move them and undo in between; of all that only the undo of *)
(* a check-out brings two sample stays into one room (assign_room asks,    *)
(* revert_guest_checked_out does not).                                     *)
OnlyUndoneCheckOutSharesRooms ==
  [][(\E i \in DOMAIN stays : UndoCheckOut(i)) \/ Shared' \subseteq Shared]_vars

(* However often and in whatever order the jobs run, there is one demo     *)
(* reservation at most ("won't duplicate", seed_demo).                     *)
OneDemoReservation == demoReservations <= 1

(* Without --force, seed_demo leaves what staff changed since ("it skips   *)
(* creation when the admin user already exists unless --force is passed"). *)
UnforcedSeedKeepsEdits ==
  [][(last' # None /\ last' # last /\ last'.job = "seed_demo" /\ admin /\ ~last'.force)
     => roles' = roles /\ rates' = rates /\ gst' = gst]_vars

(* With --force, seed_sample_data adds another batch where none but the    *)
(* earlier ones is in the way ("which adds another batch rather than       *)
(* deduplicating").                                                        *)
ForceAddsBatch ==
  last # None /\ last.job = "seed_sample_data" /\ last.force /\ Priced /\ ~last.full
    => last.done

================================================================================
