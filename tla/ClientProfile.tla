---------------------------- MODULE ClientProfile ----------------------------
(***************************************************************************)
(* A configuration of cyberia-linux-client, checked with --check and then  *)
(* run (apps/linux-client/src): which inputs each of the two refuses, and  *)
(* how far a run gets.  A field is abstracted to the values its checks     *)
(* tell apart.  Files keep their modes between the two invocations.        *)
(***************************************************************************)
EXTENDS AddressPlan, KeyText, FiniteSets

CONSTANTS
  LeaseNames,       \* what valid_interface_name of the client accepts
  AdapterNames,     \* what valid_interface of the adapter accepts
  MaximumAllowed, MaximumResolvers, MaximumKeepalive, MinimumMtu, MaximumMtu,
  Mapped,           \* the IPv4 address of an IPv4-mapped IPv6 address
  NoKeepalive,      \* None
  LongestTimeout    \* that can be added to an Instant

ASSUME ProfileAssumption == AdapterNames \subseteq LeaseNames /\ LongestTimeout \in Nat

VARIABLES
  config,
  verdict,   \* of --check: "none", "ok", "err" or "panicked"
  stage,     \* of the run: "none", "settings", "built", "connecting" or an exit:
             \* "busy", "err" (a refusal), "firewall" (nft failed), "panicked"
  armed      \* the run has installed the blocking table

profileVars == <<config, verdict, stage, armed>>

ProfileInit(configs) ==
  /\ config \in configs
  /\ verdict = "none"
  /\ stage = "none"
  /\ armed = FALSE

-----------------------------------------------------------------------------
(* parse_cidr: text that does not parse is a prefix longer than the family *)
(* allows.                                                                 *)
ParsesCidrs(list) == \A i \in DOMAIN list : list[i].prefix =< Width[list[i].family]

(* ClientConfig::into_connection_settings, and the inputs it panics on.    *)
ConnectionSettings(c) ==
  /\ c.port # 0 /\ c.mark # 0
  /\ DecodeStatus(c.key) = "ok"
  /\ ParsesCidrs(c.addresses) /\ ParsesCidrs(c.allowed)

SettingsPanic(c) == c.port # 0 /\ c.mark # 0 /\ DecodeStatus(c.key) = "panic"

ValidKeepalive(seconds) == seconds = NoKeepalive \/ seconds \in 1 .. MaximumKeepalive
ValidMtu(mtu) == mtu \in MinimumMtu .. MaximumMtu

(* WireGuardConfig::validate                                               *)
ValidProfile(c) ==
  /\ DecodedKey(c.key) # [n \in 1 .. KeyLength |-> 0]
  /\ ValidInterfaceAddresses(c.addresses)
  /\ Len(c.allowed) \in 1 .. MaximumAllowed
  /\ \A i \in DOMAIN c.allowed :
       ValidNetwork(c.allowed[i]) /\ \A j \in 1 .. i - 1 : c.allowed[j] # c.allowed[i]
  /\ ValidKeepalive(c.keepalive)
  /\ ValidMtu(c.mtu)

CanonicalAddress(a) == IF a \in DOMAIN Mapped THEN Mapped[a] ELSE a

(* DnsConfig::validate                                                     *)
ValidDns(resolvers) ==
  /\ Len(resolvers) \in 1 .. MaximumResolvers
  /\ \A i \in DOMAIN resolvers :
       LET address == CanonicalAddress(resolvers[i])
       IN /\ ~Unspecified(address) /\ ~IsMulticast(address)
          /\ \A j \in 1 .. i - 1 : CanonicalAddress(resolvers[j]) # address

(* LinuxTools::validate, LinuxDnsTools::validate, SystemNftablesRunner::new*)
ValidTools(c) == {"ip", "wg", "private_key"} \cap c.unsafe = {}
ValidDnsTools(c) == "resolvectl" \notin c.unsafe
ValidNft(c) == "nft" \notin c.unsafe

(* load_config and acquire_interface_lease, as long as no other process    *)
(* holds the lock.                                                         *)
LoadsAndLeases(c) == "directory" \notin c.unsafe /\ c.interface \in LeaseNames

-----------------------------------------------------------------------------
(* Mutant: the check leaves out the nft executable.                        *)
ValidatesWithoutNft(c) ==
  /\ ConnectionSettings(c)
  /\ ValidProfile(c) /\ ValidDns(c.dns) /\ c.timeout # 0
  /\ ValidTools(c) /\ ValidDnsTools(c)

(* validate_client_configuration                                           *)
Validates(c) ==
  /\ ConnectionSettings(c)
  /\ ValidProfile(c) /\ ValidDns(c.dns) /\ c.timeout # 0
  /\ ValidTools(c) /\ ValidDnsTools(c) /\ ValidNft(c)

Check ==
  /\ stage = "none" /\ verdict = "none"
  /\ LET loaded == LoadsAndLeases(config)
     IN verdict' = IF loaded /\ SettingsPanic(config) THEN "panicked"
                   ELSE IF loaded /\ Validates(config) THEN "ok" ELSE "err"
  /\ UNCHANGED <<config, stage, armed>>

(* run without --check                                                     *)
Run ==
  /\ stage = "none"
  /\ \E free \in BOOLEAN :
       stage' = IF ~LoadsAndLeases(config) THEN "err"
                ELSE IF ~free THEN "busy"
                ELSE IF SettingsPanic(config) THEN "panicked"
                ELSE IF ConnectionSettings(config) THEN "settings" ELSE "err"
  /\ UNCHANGED <<config, verdict, armed>>

(* Mutant: resolvectl is not checked before filtering is armed.            *)
BuildsWithoutDnsTools(c) ==
  /\ ValidNft(c) /\ c.timeout # 0
  /\ ValidDns(c.dns)
  /\ ValidTools(c)
  /\ c.interface \in AdapterNames /\ ValidProfile(c)

(* LinuxWireGuardConnection::system and with_runners, up to the firewall.  *)
(* Paths from JSON are UTF-8 and endpoint_address is an IP address, so two *)
(* of their checks always pass.                                            *)
Builds(c) ==
  /\ ValidNft(c) /\ c.timeout # 0
  /\ ValidDns(c.dns)
  /\ ValidTools(c)
  /\ c.interface \in AdapterNames /\ ValidProfile(c)
  /\ ValidDnsTools(c)

Build ==
  /\ stage = "settings"
  /\ \/ ~Builds(config) /\ stage' = "err" /\ UNCHANGED armed
     \/ Builds(config) /\ stage' = "firewall" /\ UNCHANGED armed
     \/ Builds(config) /\ stage' = "built" /\ armed' = TRUE
  /\ UNCHANGED <<config, verdict>>

(* Instant::now() + connect_timeout panics when it cannot be represented.  *)
Connect ==
  /\ stage = "built"
  /\ stage' = IF config.timeout =< LongestTimeout THEN "connecting" ELSE "panicked"
  /\ UNCHANGED <<config, verdict, armed>>

ProfileNext == Check \/ Run \/ Build \/ Connect

ProfileSpec(configs) == ProfileInit(configs) /\ [][ProfileNext]_profileVars

-----------------------------------------------------------------------------
(***************************************************************************)
(* What --check refuses is never half-run: every input it looks at is      *)
(* looked at again before the run arms filtering, so a bad one cannot      *)
(* leave a host blocked without a tunnel ("Returns an error before use",   *)
(* LinuxWireGuardConnection::system).                                      *)
(***************************************************************************)
RefusedNeverArms == verdict \in {"err", "panicked"} => ~armed

(* What --check lets pass: a dot in the interface name, which the lease    *)
(* admits and WireGuardAdapter::new does not, and a timeout that cannot be *)
(* added to an Instant.                                                    *)
BeyondTheCheck(c) ==
  c.interface \notin AdapterNames \/ c.timeout > LongestTimeout

(***************************************************************************)
(* "Validates every client input that can be checked without network       *)
(* mutation" (validate_client_configuration): with two exceptions, a run   *)
(* of what --check accepted is refused only for a held lease or by the     *)
(* firewall, and its connect does not panic.                               *)
(***************************************************************************)
AcceptedStarts ==
  verdict = "ok" /\ ~BeyondTheCheck(config) => stage \notin {"err", "panicked"}

(***************************************************************************)
(* The peer a run blocks the host for is the configured one: the base64    *)
(* that encode_key gives wg carries exactly the bits that the hexadecimal  *)
(* digits of the configuration write, filled up with zeros and padding,    *)
(* whatever the text was; only a plus sign that from_str_radix takes for   *)
(* the first of two digits is let pass.                                    *)
(***************************************************************************)
KeyHandedOver ==
  armed /\ (\A n \in DOMAIN config.key : config.key[n].kind # "plus") =>
    LET code == EncodeKey(DecodedKey(config.key))
        written == 4 * Len(config.key)
    IN /\ WellFormed(config.key)
       /\ written =< 6 * Len(code)
       /\ \A k \in DOMAIN code : code[k] = Padding <=> 6 * (k - 1) >= written
       /\ \A i \in 1 .. 6 * Len(code) :
            code[(i - 1) \div 6 + 1] # Padding =>
              Bit(code, 6, i) = IF i =< written THEN WrittenBit(config.key, i) ELSE 0
=============================================================================
