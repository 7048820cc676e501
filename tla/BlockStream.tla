------------------------------ MODULE BlockStream ------------------------------
(***************************************************************************)
(* The byte stream over the blocks of the card that the mounted filesystem *)
(* keeps for as long as the device runs: whole blocks go directly to the   *)
(* card, parts of a block through a write-back cache of a few blocks.      *)
(*                                                                         *)
(* Source: block_stream.rs and measured_block_device.rs of                 *)
(* crates/embedded-sd-storage.                                             *)
(*                                                                         *)
(* A block has two parts.  What is written is a number that grows, so the  *)
(* order of writes is the order of numbers.                                *)
(***************************************************************************)
EXTENDS Integers, FiniteSets

CONSTANTS
    LastBlock,      \* the blocks of the card are 0 .. LastBlock
    CacheBlocks,    \* METADATA_CACHE_BLOCKS
    BatchBlocks,    \* STREAM_BATCH_BLOCKS
    MaxWrites,      \* bound: writes
    MaxStreamFaults \* bound: failures of the card and resets

ASSUME StreamAssumption ==
    /\ LastBlock \in Nat /\ CacheBlocks \in Nat \ {0} /\ BatchBlocks \in Nat \ {0}
    /\ MaxWrites \in Nat /\ MaxStreamFaults \in Nat

VARIABLES
    card,           \* what is on the card: a number for each part of each block
    cached,         \* the slots: a block or Nothing, its parts, and whether it is dirty
    victim,         \* next_cache_victim
    wanted,         \* history: what the filesystem has written
    durable,        \* history: what it had written when the last flush returned
    garbled,        \* history: the blocks in whose slot a failed read has left garbage
    writes, streamFaults

streamVars == <<card, cached, victim, wanted, durable, garbled, writes, streamFaults>>

Blocks == 0 .. LastBlock
Parts == {1, 2}
Slots == 0 .. CacheBlocks - 1
Nothing == -1
Garbage == -2
Empty == [block |-> Nothing, parts |-> [p \in Parts |-> 0], dirty |-> FALSE]

StreamWorks == UNCHANGED streamFaults
StreamFails == streamFaults < MaxStreamFaults /\ streamFaults' = streamFaults + 1

Hits(block) == {s \in Slots : cached[s].block = block}
Dirty(slots) == {s \in slots : cached[s].dirty}

\* flush_cache_slot for some of the slots.
WrittenBack(slots) ==
    [b \in Blocks |-> IF Hits(b) \cap Dirty(slots) = {} THEN card[b]
                      ELSE cached[CHOOSE s \in Hits(b) : TRUE].parts]

Clean(slots) == [s \in Slots |-> IF s \in slots THEN [cached[s] EXCEPT !.dirty = FALSE] ELSE cached[s]]

\* The slot for a block that is not cached: the first free one, or the next victim.
SlotFor ==
    LET free == Hits(Nothing)
    IN IF free = {} THEN victim ELSE CHOOSE s \in free : \A t \in free : s <= t

\* A read that fails may have put anything into the buffer of the slot.
GarbageIn(slot) ==
    /\ cached' = [Clean({slot}) EXCEPT ![slot].parts = [p \in Parts |-> Garbage]]
    /\ garbled' = garbled \cup ({cached[slot].block} \cap Blocks)

\* load_cached_block for a block that is not there.  The slot keeps its old
\* block until the read has worked.
Load(block) ==
    /\ Hits(block) = {}
    /\ victim' = IF Hits(Nothing) = {} THEN (victim + 1) % CacheBlocks ELSE victim
    /\ \/ /\ StreamWorks
          /\ card' = WrittenBack({SlotFor})
          /\ cached' = [cached EXCEPT ![SlotFor] =
                            [block |-> block, parts |-> card[block], dirty |-> FALSE]]
          /\ UNCHANGED garbled
       \/ /\ StreamFails
          /\ Dirty({SlotFor}) # {}
          /\ UNCHANGED <<card, cached, garbled>>
       \/ /\ StreamFails
          /\ card' = WrittenBack({SlotFor})
          /\ \/ cached' = Clean({SlotFor}) /\ UNCHANGED garbled
             \/ GarbageIn(SlotFor)
    /\ UNCHANGED <<wanted, durable, writes>>

\* write_bytes of a part of a block that is in the cache.
WritePart(block, part) ==
    /\ writes < MaxWrites
    /\ writes' = writes + 1
    /\ \E slot \in Hits(block) :
        cached' = [cached EXCEPT ![slot].parts[part] = writes + 1, ![slot].dirty = TRUE]
    /\ wanted' = [wanted EXCEPT ![block][part] = writes + 1]
    /\ UNCHANGED <<card, victim, durable, garbled, streamFaults>>

\* cached_block_overlaps
Overlapping(run) == {s \in Slots : cached[s].block \in run}

\* Mutant: the cached copies are dropped and not written back.
BackBeforeNot(run) == {}

\* prepare_direct_io: what is written back before the cached copies are dropped.
BackBefore(run) == Overlapping(run)

Dropped(slots) == [s \in Slots |-> IF s \in slots THEN Empty ELSE cached[s]]

Runs == {first .. last : first \in Blocks, last \in Blocks}
Batches == {run \in Runs : run # {} /\ Cardinality(run) <= BatchBlocks}

\* read_bytes of whole blocks.
ReadWhole(run) ==
    /\ Overlapping(run) # {}
    /\ \/ /\ StreamWorks \/ StreamFails
          /\ card' = WrittenBack(BackBefore(run))
          /\ cached' = Dropped(Overlapping(run))
       \/ /\ StreamFails
          /\ \E s \in Dirty(Overlapping(run)) :
               LET before == {t \in Overlapping(run) : t < s}
               IN card' = WrittenBack(before \cap BackBefore(run)) /\ cached' = Dropped(before)
    /\ UNCHANGED <<victim, wanted, durable, garbled, writes>>

\* write_bytes of whole blocks.  If it fails a first part of them may be written,
\* and nobody may rely on any of them.
WriteWhole(run) ==
    /\ writes < MaxWrites
    /\ writes' = writes + 1
    /\ LET filled(done) == [b \in Blocks |-> IF b \in done THEN [p \in Parts |-> writes + 1]
                                             ELSE WrittenBack(BackBefore(run))[b]]
       IN \/ /\ StreamWorks
             /\ card' = filled(run)
             /\ cached' = Dropped(Overlapping(run))
             /\ wanted' = [b \in Blocks |-> IF b \in run THEN card'[b] ELSE wanted[b]]
          \/ /\ StreamFails
             /\ \E last \in run : card' = filled({b \in run : b < last})
             /\ cached' = Dropped(Overlapping(run))
             /\ wanted' = [b \in Blocks |-> IF b \in run THEN card'[b] ELSE wanted[b]]
          \/ /\ StreamFails
             /\ \E s \in Dirty(Overlapping(run)) :
                  LET before == {t \in Overlapping(run) : t < s}
                  IN card' = WrittenBack(before \cap BackBefore(run)) /\ cached' = Dropped(before)
             /\ UNCHANGED wanted
    /\ UNCHANGED <<victim, durable, garbled>>

Flushed == Slots

\* flush_cached_blocks
Flush ==
    /\ \/ /\ StreamWorks
          /\ card' = WrittenBack(Flushed)
          /\ cached' = Clean(Flushed)
          /\ durable' = wanted
       \/ /\ StreamFails
          /\ \E s \in Dirty(Flushed) :
               LET before == {t \in Flushed : t < s}
               IN card' = WrittenBack(before) /\ cached' = Clean(before)
          /\ UNCHANGED durable
    /\ UNCHANGED <<victim, wanted, garbled, writes>>

\* Power is lost: what is in the cache with it.
Reset ==
    /\ StreamFails
    /\ cached' = [s \in Slots |-> Empty]
    /\ victim' = 0
    /\ wanted' = card
    /\ UNCHANGED <<card, durable, garbled, writes>>

StreamInit ==
    /\ card = [b \in Blocks |-> [p \in Parts |-> 0]]
    /\ cached = [s \in Slots |-> Empty]
    /\ victim = 0
    /\ wanted = card /\ durable = card /\ garbled = {}
    /\ writes = 0 /\ streamFaults = 0

StreamNext ==
    \/ \E block \in Blocks : Load(block)
    \/ \E block \in Blocks, part \in Parts : WritePart(block, part)
    \/ \E run \in Batches : ReadWhole(run) \/ WriteWhole(run)
    \/ Flush
    \/ Reset

StreamSpec == StreamInit /\ [][StreamNext]_streamVars

(***************************************************************************)
(* Properties.                                                             *)
(***************************************************************************)
\* What a read of the block through the stream returns, from the cache or from
\* the card.
Seen(b) == IF Hits(b) = {} THEN card[b] ELSE cached[CHOOSE s \in Hits(b) : TRUE].parts

\* A block read through the stream is what was last written to it, whatever
\* calls have failed.  Garbage is seen in no block but those that were in the
\* cache when a read into their slot failed: load_cached_block leaves the slot
\* the name of its old block.
ReadsLatest ==
    \A b \in Blocks, p \in Parts :
        Seen(b)[p] = wanted[b][p] \/ (b \in garbled /\ Seen(b)[p] = Garbage)

\* What was written when a flush returned stays on the card, or something newer,
\* through failures and resets, but for garbage in such a block.
FlushedSurvives ==
    \A b \in Blocks, p \in Parts :
        card[b][p] >= durable[b][p] \/ (b \in garbled /\ card[b][p] = Garbage)

\* Two blocks are kept back and nobody can tell: reads see what was written
\* last, and what was flushed before the end of power is on the card.
CacheSound == ReadsLatest /\ FlushedSurvives

\* What would hold if a read that fails left the buffer as it was.
ReadsLatestAlways == \A b \in Blocks : Seen(b) = wanted[b]
================================================================================
