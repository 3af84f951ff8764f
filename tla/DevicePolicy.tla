---------------------------- MODULE DevicePolicy ----------------------------
(***************************************************************************)
(* One GET /device/{deviceID} (GetDevice of pkg/mahogany/views/devices.go, *)
(* pkg/vpn): of the network's rules, those that let the device reach       *)
(* something and those that let something reach it.  A destination is a    *)
(* tag with a port, and is found by the text it begins with.               *)
(***************************************************************************)
EXTENDS SequencesExt

CONSTANTS Device,    \* the devices, as the sequences of their tags
          Policy,    \* the policies: sequences of rules [src, dst] of tags
          Prefix     \* the pairs of tags of which the one begins the other

IsSeq(x) == x \in Seq(ToSet(x))

ASSUME DevicePolicyAssumption == \A s \in Device \cup Policy : IsSeq(s)

VARIABLES device,    \* what the requests to the API answered
          policy,
          sourcePolicy, destPolicy,   \* of the view
          shownDevice  \* whether the page is there

policyVars == <<device, policy, sourcePolicy, destPolicy, shownDevice>>

PolicyInit ==
  /\ device \in Device
  /\ policy \in Policy
  /\ sourcePolicy = <<>>
  /\ destPolicy = <<>>
  /\ shownDevice = "no"

\* strings.HasPrefix of a destination, which begins with its own tag.
HasPrefix(dest, tag) == dest = tag \/ <<tag, dest>> \in Prefix

\* Both loops: for each rule, and for each tag that matches, the rule.
FilteredBy(Match(_, _)) ==
  FlattenSeq([i \in 1..Len(policy) |->
    FlattenSeq([j \in 1..Len(device) |->
      IF Match(policy[i], device[j]) THEN <<policy[i]>> ELSE <<>>])])

SourceMatches(acl, tag) == tag \in acl.src

\* Mutant: a destination is looked for in the tag.
DestMatchesTurned(acl, tag) == \E dest \in acl.dst : <<dest, tag>> \in Prefix

DestMatches(acl, tag) == \E dest \in acl.dst : HasPrefix(dest, tag)

GetDevice ==
  /\ shownDevice = "no"
  /\ \/ /\ shownDevice' = "yes"
        /\ sourcePolicy' = FilteredBy(SourceMatches)
        /\ destPolicy' = FilteredBy(DestMatches)
     \/ /\ shownDevice' = "error"
        /\ UNCHANGED <<sourcePolicy, destPolicy>>
  /\ UNCHANGED <<device, policy>>

PolicyNext == GetDevice

PolicySpec == PolicyInit /\ [][PolicyNext]_policyVars

-----------------------------------------------------------------------------
Tags == ToSet(device)

(* The page hides no rule about the device, and shows a rule that is not   *)
(* only as a destination, when the name of a tag of the device begins that *)
(* of another tag.                                                         *)
RulesAreShown ==
  shownDevice = "yes" =>
    /\ ToSet(sourcePolicy) = {acl \in ToSet(policy) : acl.src \cap Tags # {}}
    /\ \A acl \in ToSet(policy) : acl.dst \cap Tags # {} => acl \in ToSet(destPolicy)
    /\ \A acl \in ToSet(destPolicy) :
         acl.dst \cap Tags = {} => \E p \in Prefix : p[1] \in Tags /\ p[2] \in acl.dst
=============================================================================
