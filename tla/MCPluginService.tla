--------------------------- MODULE MCPluginService ---------------------------
(* Instances of PluginService for TLC. *)
EXTENDS PluginService

MCIfNames  == {"awg-a", "awg-b"}
MCFamilies == {"v4", "v6"}

\* Two profiles whose UUIDs share the first eight digits and differ in their
\* methods, one on a name of its own, one that cannot be announced for lack of
\* an address and one that validation rejects.
MCProfiles == {
    [ifname |-> "awg-a", auto |-> {"v4", "v6"}, addressed |-> TRUE,  valid |-> TRUE],
    [ifname |-> "awg-a", auto |-> {"v4"},       addressed |-> TRUE,  valid |-> TRUE],
    [ifname |-> "awg-b", auto |-> {},           addressed |-> TRUE,  valid |-> TRUE],
    [ifname |-> "awg-b", auto |-> {"v6"},       addressed |-> FALSE, valid |-> TRUE],
    [ifname |-> "awg-a", auto |-> {},           addressed |-> TRUE,  valid |-> FALSE]}

AllBackends == {"netlink", "external", "dummy"}
OnlyNetlink == {"netlink"}
NoFaults    == {}
Signal      == {"signal"}
AllFaults   == {"signal", "crash", "link_del", "route_add", "route_del"}
=============================================================================
