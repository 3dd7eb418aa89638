-------------------------------- MODULE Subnet --------------------------------
(***************************************************************************)
(* internal/discover parseCIDR and incIP: the addresses of a prefix, found *)
(* by counting up from its first one as long as the prefix contains it, and*)
(* without its first and last one if there are more than two.  pkg/utils   *)
(* CIDRToIPs and incIP are the same code.                                  *)
(*                                                                         *)
(* An address is a sequence of octets to the base 2^OctetBits, the most    *)
(* significant first, and an octet overflows to 0 (a byte of Go).          *)
(***************************************************************************)
EXTENDS Context, Integers, Sequences, SequencesExt

CONSTANTS
  Octets,      \* of an address: 4 or 16
  OctetBits,   \* of an octet: 8
  MaxListed    \* bound: the addresses that are listed

ASSUME SubnetAssumption ==
  Octets \in Nat \ {0} /\ OctetBits \in Nat \ {0} /\ MaxListed \in Nat

VARIABLES
  subnet,     \* where parseCIDR is
  prefix,     \* [net, bits]: the network address and the length of its mask
  ip,         \* the loop variable
  ips         \* the addresses listed

subnetVars == <<subnet, prefix, ip, ips>>

Bits == Octets * OctetBits
PowerOfTwo[n \in 0..Bits] == IF n = 0 THEN 1 ELSE 2 * PowerOfTwo[n - 1]

OctetBase == PowerOfTwo[OctetBits]
Addresses == [1..Octets -> 0..(OctetBase - 1)]

ValueOf(a) == FoldLeft(LAMBDA v, octet : v * OctetBase + octet, 0, a)

(* The size of a prefix, and the block of that size that an address is in.   *)
Size(bits) == PowerOfTwo[Bits - bits]
Block(a, bits) == ValueOf(a) \div Size(bits)

SubnetTypeOK ==
  /\ subnet \in {"parse", "list", "done", "failed"}
  /\ prefix.net \in Addresses /\ prefix.bits \in 0..Bits
  /\ ip \in Addresses
  /\ ips \in Seq(Addresses)

SubnetInit ==
  /\ subnet = "parse"
  /\ prefix = [net |-> [k \in 1..Octets |-> 0], bits |-> 0]
  /\ ip = prefix.net
  /\ ips = <<>>

------------------------------------------------------------------------------
(* net.ParseCIDR, and ip.Mask: the first address of the block. *)
ParseCIDR ==
  /\ subnet = "parse"
  /\ \/ /\ \E net \in Addresses, bits \in 0..Bits :
             /\ ValueOf(net) % Size(bits) = 0
             /\ prefix' = [net |-> net, bits |-> bits]
             /\ ip' = net
        /\ subnet' = "list"
     \/ subnet' = "failed" /\ UNCHANGED <<prefix, ip>>
  /\ UNCHANGED <<ips, ctxDone>>

InPrefix(a) == Block(a, prefix.bits) = Block(prefix.net, prefix.bits)

(* Mutant: an octet that overflows does not carry. *)
IncIP_NoCarry(a) == [a EXCEPT ![Octets] = (@ + 1) % OctetBase]

(* The last octet that is not full is the last one to change. *)
IncIP(a) ==
  [k \in 1..Octets |->
     IF \A j \in (k + 1)..Octets : a[j] = OctetBase - 1
     THEN (a[k] + 1) % OctetBase ELSE a[k]]

(* ctx is not looked at. *)
ListIP ==
  /\ subnet = "list" /\ InPrefix(ip) /\ Len(ips) < MaxListed
  /\ ips' = Append(ips, ip)
  /\ ip' = IncIP(ip)
  /\ UNCHANGED <<subnet, prefix, ctxDone>>

Listed ==
  /\ subnet = "list" /\ ~InPrefix(ip)
  /\ ips' = IF Len(ips) > 2 THEN SubSeq(ips, 2, Len(ips) - 1) ELSE ips
  /\ subnet' = "done"
  /\ UNCHANGED <<prefix, ip, ctxDone>>

SubnetStep == ParseCIDR \/ ListIP \/ Listed

(* A run of its own, for what is proved of it. *)
SubnetSpec ==
  /\ SubnetInit /\ ContextInit
  /\ [][SubnetStep \/ (Cancel /\ UNCHANGED subnetVars)]_<<subnetVars, ctxDone>>

(* The enumeration of every address comes back to the first one. *)
Endless == subnet = "list" /\ prefix.bits = 0

------------------------------------------------------------------------------
(* Properties. *)

(* The addresses that are scanned are the hosts of the prefix, in order: all *)
(* of them, but without the network's and the broadcast address of one that  *)
(* has more than two.  The enumeration never goes past the end of a prefix,  *)
(* but that of 0.0.0.0/0, whose list is never made (discover.go:139-163).    *)
HostsAreTheSubnet ==
  LET first == ValueOf(prefix.net)
      size == Size(prefix.bits)
      trim == IF size > 2 THEN 1 ELSE 0
  IN  /\ prefix.bits > 0 => Len(ips) <= size
      /\ subnet = "done" =>
           /\ prefix.bits > 0
           /\ [k \in 1..Len(ips) |-> ValueOf(ips[k])] =
                [k \in 1..(size - 2 * trim) |-> first + trim + k - 1]
=============================================================================
