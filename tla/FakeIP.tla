------------------------------- MODULE FakeIP -------------------------------
(***************************************************************************)
(* Address arithmetic of the fake addresses (cmd/dns: fakeip.go).  An      *)
(* address is a number; a range is a CIDR block as initV4 and initV6 store *)
(* it: its first address, its size and how many addresses its family has.  *)
(* The hash of a name, 16 bytes of SHA-256, is a number given from outside.*)
(***************************************************************************)
EXTENDS Integers

minRangeForReservation == 4
reservedIPv4Endpoints  == 2

\* A block of the family: blocks are aligned, so none reaches over the end.
Ranges == {r \in [base : Nat, size : Nat \ {0}, space : Nat] : r.base + r.size <= r.space}

\* The addresses of a range; IsFakeV4 asks for them.
Block(r) == r.base .. (r.base + r.size - 1)

\* ipToFixed: as many bytes as the family has.
Fixed(v, space) == IF v < space THEN v ELSE v % space

\* Variant: the offset is not moved past the network address.
ComputeV4_NoShift(r, hash) ==
  LET usable == IF r.size >= minRangeForReservation THEN r.size - reservedIPv4Endpoints ELSE r.size
  IN  Fixed(r.base + (hash % usable), r.space)

ComputeV4(r, hash) ==
  LET usable == IF r.size >= minRangeForReservation THEN r.size - reservedIPv4Endpoints ELSE r.size
      offset == IF usable < r.size THEN (hash % usable) + 1 ELSE hash % usable
  IN  Fixed(r.base + offset, r.space)

ComputeV6(r, hash) == Fixed(r.base + (hash % r.size), r.space)
=============================================================================
