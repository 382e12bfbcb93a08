-------------------------------- MODULE MCLibrary --------------------------------
(* Small instances of Library: 256 longs, 16 ints. *)
EXTENDS Library

D(c, zero, w, l) == [conv |-> c, zero_pad |-> zero, width |-> w, length |-> l]

Numbers == {D(c, z, w, l): c \in {"d", "i", "u", "x", "X", "p"}, z \in BOOLEAN,
                           w \in {0, 1, 3, 5}, l \in {0, 1}}
AllWords == 0..(LONG_VALUES - 1)

Characters == {lower[i]: i \in 1..16} \cup {upper_digits[i]: i \in 1..16}
  \cup {"-", "x", " ", "%", "(", "n", "u", "l", ")", ":", "q"}

Plain(x) == [conv |-> "text", char |-> x]
F(items, args) == [items |-> items, args |-> args]
Formats == {
  F(<< >>, << >>),
  F(<<Plain("a"), D("%", FALSE, 0, 0), [conv |-> "end"]>>, << >>),
  F(<<D("s", FALSE, 3, 0), D("q", FALSE, 0, 0)>>, << <<"a">> >>),
  F(<<D("s", FALSE, 0, 0)>>, <<NULL>>),
  F(<<D("c", FALSE, 0, 0), Plain(":"), D("d", TRUE, 3, 1)>>, <<"x", 130>>) }

FiveBytes == [1..5 -> Byte]

E(t, n, on, addr) ==
  [type |-> t, length |-> n, enabled |-> on, address |-> addr, gsi_base |-> addr + 1]
Entries == {E("local_apic", 3, TRUE, 0), E("local_apic", 3, FALSE, 0), E("ioapic", 4, FALSE, 5),
            E("ioapic", 4, FALSE, 7), E("local_apic", 2, TRUE, 0), E("ioapic", 2, FALSE, 9),
            E("other", 2, FALSE, 0), E("other", 1, FALSE, 0),
            E("other", 0, FALSE, 0)}
Streams == UNION {[1..n -> Entries]: n \in 0..3}

T(sig, ok, lists, len, stream) ==
  [signature |-> sig, sum |-> ok, lists |-> lists, length |-> len, stream |-> stream]

(* An RSDT at 1 and an XSDT at 2 that list a MADT at 3, another at 4, and at 5 a    *)
(* table of another kind.                                                           *)
Tables(rsdt, xsdt, ok, len, stream) ==
  <<T("RSDT", TRUE, rsdt, 0, << >>), T("XSDT", ok, xsdt, 0, << >>),
    T("APIC", TRUE, << >>, len, stream), T("APIC", ok, << >>, 2, << >>),
    T("FACP", TRUE, << >>, 0, << >>)>>

Rsdp(signed, sum20, rev, sum36) ==
  [signed |-> signed, sum20 |-> sum20, revision |-> rev, sum36 |-> sum36, rsdt |-> 1, xsdt |-> 2]

Machines ==
  {[rsdp |-> Rsdp(TRUE, TRUE, 2, TRUE), table |-> Tables(<<3>>, <<5, 3>>, TRUE, len, stream)]:
     len \in 2..12, stream \in Streams}
  \cup
  {[rsdp |-> r, table |-> Tables(rsdt, <<5, 3>>, ok, 8, <<E("local_apic", 3, TRUE, 0)>>)]:
     r \in {Rsdp(s, c, v, x): s \in BOOLEAN, c \in BOOLEAN, v \in {0, 2}, x \in BOOLEAN},
     rsdt \in {<< >>, <<5>>, <<4, 3>>, <<3, 4>>}, ok \in BOOLEAN}
  \cup {[rsdp |-> None, table |-> Tables(<<3>>, <<3>>, TRUE, 2, << >>)]}
================================================================================
