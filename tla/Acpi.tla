---------------------------------- MODULE Acpi ----------------------------------
(* kernel/acpi: from the RSDP to the root table, to the MADT, along its entries.    *)
(* A firmware fw has an rsdp, [signed, sum20, revision, sum36, rsdt, xsdt], or       *)
(* none, and tables by address. A table has a signature, a checksum that adds up or *)
(* not, and what follows its header: the addresses a root table lists, or the        *)
(* stream of a MADT. Bytes are counted, their contents abstracted.                   *)
EXTENDS Integers, Sequences, FiniteSets, FiniteSetsExt

CONSTANTS
  MADT_HEADER,     \* sizeof(struct acpi_madt)
  ENTRY_HEADER,    \* sizeof(struct madt_entry_header)
  None,            \* NULL, or no answer
  Panic            \* the kernel stopped

(* A MADT entry: its header, and what lies at the offsets of its type's fields from *)
(* the entry's start. An entry shorter than its type has them in the entries behind *)
(* it, or behind the table: they are whatever is there.                              *)
Entry == [type: STRING, length: Nat, enabled: BOOLEAN, address: Nat, gsi_base: Nat]
Table == [signature: STRING, sum: BOOLEAN, lists: Seq(Nat), length: Nat, stream: Seq(Entry)]

(* A firmware's tables, and that an address it gives for a table is one's. An entry *)
(* may have any length, its type's or not.                                           *)
IsFirmware(fw) ==
  /\ \A a \in DOMAIN fw.table:
       /\ fw.table[a] \in Table
       /\ \A i \in DOMAIN fw.table[a].lists: fw.table[a].lists[i] \in DOMAIN fw.table
  /\ fw.rsdp # None => /\ fw.rsdp.rsdt \in DOMAIN fw.table
                       /\ fw.rsdp.revision >= 2 => fw.rsdp.xsdt \in DOMAIN fw.table

(* acpi_init: the root table, or a panic. A bad extended checksum falls back to      *)
(* the RSDT.                                                                         *)
AcpiInit(fw) ==
  LET r == fw.rsdp
      extended == r.revision >= 2 /\ r.sum36
      root == fw.table[IF extended THEN r.xsdt ELSE r.rsdt]
  IN  IF /\ r # None /\ r.signed /\ r.sum20
         /\ root.signature = (IF extended THEN "XSDT" ELSE "RSDT")
         /\ root.sum
        THEN root ELSE Panic

(* acpi_find_table: the first table listed that has the signature *)
AcpiFindTable(fw, root, signature) ==
  LET hit == {i \in DOMAIN root.lists: fw.table[root.lists[i]].signature = signature}
      found == fw.table[root.lists[Min(hit)]]
  IN  IF hit = {} THEN None ELSE IF found.sum THEN found ELSE Panic

(* struct madt_info *)
Info == [enabled_cpu_count: Nat, have_ioapic: BOOLEAN, ioapic_address: Nat, ioapic_gsi_base: Nat]

ASSUME AcpiAssumption ==
  /\ MADT_HEADER \in Nat /\ ENTRY_HEADER \in Nat
  /\ {None, Panic} \cap (Table \cup Info) = {} /\ None # Panic

Cleared == [enabled_cpu_count |-> 0, have_ioapic |-> FALSE, ioapic_address |-> 0,
            ioapic_gsi_base |-> 0]

(* Mutant: the last I/O APIC wins. *)
WithEntryLast(out, e) ==
  CASE e.type = "local_apic" /\ e.enabled ->
         [out EXCEPT !.enabled_cpu_count = @ + 1]
    [] e.type = "ioapic" ->
         [out EXCEPT !.have_ioapic = TRUE, !.ioapic_address = e.address,
                     !.ioapic_gsi_base = e.gsi_base]
    [] OTHER -> out

(* What one entry adds to madt_info: an enabled CPU, or the first I/O APIC. *)
WithEntry(out, e) ==
  CASE e.type = "local_apic" /\ e.enabled ->
         [out EXCEPT !.enabled_cpu_count = @ + 1]
    [] e.type = "ioapic" /\ ~out.have_ioapic ->
         [out EXCEPT !.have_ioapic = TRUE, !.ioapic_address = e.address,
                     !.ioapic_gsi_base = e.gsi_base]
    [] OTHER -> out

(* The loop of madt_parse, when k entries of the stream are done and the cursor is  *)
(* at the next. It ends at header.length, or at an entry of no length or one that    *)
(* reaches past it.                                                                  *)
Walk(madt) ==
  LET done[k \in 0..Len(madt.stream)] ==
        IF k = 0 THEN [cursor |-> MADT_HEADER, out |-> Cleared, open |-> TRUE]
        ELSE LET p == done[k - 1]
                 e == madt.stream[k]
             IN  IF /\ p.open
                    /\ p.cursor + ENTRY_HEADER <= madt.length
                    /\ e.length # 0
                    /\ p.cursor + e.length <= madt.length
                   THEN [cursor |-> p.cursor + e.length, out |-> WithEntry(p.out, e),
                         open |-> TRUE]
                   ELSE [p EXCEPT !.open = FALSE]
  IN  done

WalkEntries(madt) == Walk(madt)[Len(madt.stream)].out

(* madt_parse; None stands for its `false`. *)
MadtParse(fw, root) ==
  LET madt == AcpiFindTable(fw, root, "APIC")
  IN  IF madt \in {None, Panic} THEN madt ELSE WalkEntries(madt)
================================================================================
