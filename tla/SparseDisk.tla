----------------------------- MODULE SparseDisk -----------------------------
(***************************************************************************)
(* The disk of bench/rnf03/sim_card.c: an 8 GiB card in 6 MiB of memory.   *)
(* A sector that was written has a page; which one, a hash table of        *)
(* SLOT_COUNT places with linear probing says.  A transfer goes sector by  *)
(* sector and stops at the first that fails.                               *)
(*                                                                         *)
(* A definition marked "Defect" is not part of the model: it is what the   *)
(* definition below it would be with a plausible mistake in the code.      *)
(***************************************************************************)
EXTENDS Integers, FiniteSets

CONSTANTS
  SectorCount,  \* SECTOR_COUNT
  SlotCount,    \* SLOT_COUNT
  Multiplier,   \* 2654435761U
  MaxPages,     \* MAX_PAGES
  Contents,     \* what a sector may hold
  Zero          \* 512 bytes of zero

\* Neither of these is a content.
Nothing == <<"nothing">>
NoSpace == <<"ENOSPC">>

\* The second is the BUILD_ASSERT on the slack the probing needs.
ASSUME DiskAssumption ==
  /\ SectorCount \in Nat \ {0} /\ SlotCount \in Nat \ {0} /\ Multiplier \in Nat
  /\ MaxPages \in Nat /\ MaxPages < SlotCount
  /\ Zero \in Contents /\ {Nothing, NoSpace} \cap Contents = {}

VARIABLES
  slots,        \* the page of each place, from one on; zero is a free place
  slot_sector,  \* the sector whose page it is
  pages,        \* the data
  pages_used,   \* how many of them are handed out
  io,           \* the transfer: what it is, its first sector, its next and its end
  got           \* what the last access to a sector gave back

tableVars == <<slots, slot_sector, pages, pages_used>>
diskVars == <<tableVars, io, got>>

Sectors == 0..(SectorCount - 1)
Places == 0..(SlotCount - 1)

Idle == [op |-> "none", start |-> 0, next |-> 0, end |-> 0]

DiskTypeOK ==
  /\ slots \in [Places -> 0..MaxPages]
  /\ slot_sector \in [Places -> Sectors]
  /\ pages \in [1..MaxPages -> Contents]
  /\ pages_used \in 0..MaxPages
  /\ io \in [op : {"none", "read", "write"}, start : Nat, next : Nat, end : 0..SectorCount]
  /\ io.op # "none" => io.start <= io.next /\ io.next < io.end

DiskInit ==
  /\ slots = [i \in Places |-> 0]
  /\ slot_sector = [i \in Places |-> 0]
  /\ pages = [p \in 1..MaxPages |-> Zero]
  /\ pages_used = 0
  /\ io = Idle
  /\ got = Nothing

---------------------------------------------------------------------------
\* slot_of.

\* SLOT_COUNT divides 2^32: the product that wraps has the same remainder.
Home(s) == (s * Multiplier) % SlotCount

\* The place d steps on from the home of s, round the end of the table.
Place(s, d) ==
  IF Home(s) + d < SlotCount THEN Home(s) + d ELSE Home(s) + d - SlotCount

\* Defect: two sectors with the same home are taken for one another.
StopsAtCollision(s, i) == slots[i] = 0 \/ Home(slot_sector[i]) = Home(s)

\* The condition that ends the loop.
Stops(s, i) == slots[i] = 0 \/ slot_sector[i] = s

\* How many steps the loop makes: the first place at which it may stop.
Steps(s) ==
  CHOOSE d \in Places :
    Stops(s, Place(s, d)) /\ \A e \in 0..(d - 1) : ~Stops(s, Place(s, e))

SlotOf(s) == Place(s, Steps(s))

---------------------------------------------------------------------------
\* page_find, and what a sector of the card reads as.
PageFind(s) == slots[SlotOf(s)]

Read(s) == IF PageFind(s) = 0 THEN Zero ELSE pages[PageFind(s)]

\* sim_disk_read and sim_disk_write refuse what is not on the card; a transfer
\* of nothing is over at once.
Transfer(op, start, count) ==
  /\ io = Idle
  /\ io' = IF count > 0 /\ start + count <= SectorCount
             THEN [op |-> op, start |-> start, next |-> start, end |-> start + count]
             ELSE Idle
  /\ UNCHANGED <<tableVars, got>>

Advance == io' = IF io.next + 1 < io.end THEN [io EXCEPT !.next = @ + 1] ELSE Idle

ReadSector ==
  /\ io.op = "read"
  /\ got' = Read(io.next)
  /\ Advance
  /\ UNCHANGED tableVars

\* page_get, of a sector that has a page.
OverwriteSector(c) ==
  /\ io.op = "write" /\ PageFind(io.next) # 0
  /\ pages' = [pages EXCEPT ![PageFind(io.next)] = c]
  /\ got' = Nothing
  /\ Advance
  /\ UNCHANGED <<slots, slot_sector, pages_used>>

\* page_get, of one that gets its page now.
MaterialiseSector(c) ==
  /\ io.op = "write" /\ PageFind(io.next) = 0
  /\ pages_used < MaxPages
  /\ pages_used' = pages_used + 1
  /\ slots' = [slots EXCEPT ![SlotOf(io.next)] = pages_used']
  /\ slot_sector' = [slot_sector EXCEPT ![SlotOf(io.next)] = io.next]
  /\ pages' = [pages EXCEPT ![pages_used'] = c]
  /\ got' = Nothing
  /\ Advance

\* page_get, of one that gets none: the write stops half-way with -ENOSPC.
OutOfPages ==
  /\ io.op = "write" /\ PageFind(io.next) = 0
  /\ pages_used >= MaxPages
  /\ got' = NoSpace
  /\ io' = Idle
  /\ UNCHANGED tableVars

DiskStep ==
  \/ ReadSector
  \/ \E c \in Contents : OverwriteSector(c) \/ MaterialiseSector(c)
  \/ OutOfPages

---------------------------------------------------------------------------
\* Properties.

Written == {slot_sector[i] : i \in {j \in Places : slots[j] # 0}}

\* Whatever sectors are written, in whatever order and however they collide in
\* the table, each reads as it was last written and the others as zero; a write
\* is refused only when every page is taken, and what it did before stays.
Promised ==
  INSTANCE SectorArray WITH card <- [s \in Sectors |-> Read(s)], written <- Written

ImplementsSectorArray == Promised!ArraySpec
=============================================================================
