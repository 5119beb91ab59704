----------------------------- MODULE SoaSerial ------------------------------
(***************************************************************************)
(* SOA serials: unsigned integers of fixed width in the sequence space of  *)
(* RFC 1982, as the updater, the role's filter and the zone filter of the  *)
(* repository compute with them.                                           *)
(***************************************************************************)
EXTENDS Integers

CONSTANT Modulus        \* 2^32 in the code

Serials == 0..(Modulus - 1)
HalfRange == Modulus \div 2

ASSUME ModulusAssumption ==
    Modulus \in Nat /\ HalfRange > 1 /\ Modulus = 2 * HalfRange

\* How far b is ahead of a.
Distance(a, b) == (b - a) % Modulus

\* Mutant: the sum is not reduced.
FollowingUnwrapped(a) == a + 1

Following(a) == (a + 1) % Modulus

\* serial_is_newer
Newer(current, candidate) ==
    0 < Distance(current, candidate) /\ Distance(current, candidate) < HalfRange

\* The order of two serials half the space apart is undefined.
Ambiguous(a, b) == Distance(a, b) = HalfRange

\* mysql_role_dns_converged_serial for serials that are not ambiguous.
ConvergedSerial(first, second, needUpdate) ==
    IF first = second
    THEN IF needUpdate THEN Following(first) ELSE first
    ELSE Following(IF Distance(first, second) < HalfRange THEN second ELSE first)

\* dns_authoritative_soa_serial for an existing zone.
ZoneSerial(existing, unchanged) ==
    IF unchanged THEN existing ELSE Following(existing)

=============================================================================
