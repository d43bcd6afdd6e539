----------------------------- MODULE MCUserPresence -----------------------------
EXTENDS UserPresence

Off   == [source |-> "none", pin |-> 0, taps |-> 1, window |-> 1, timeout |-> 2, valid |-> TRUE]
Two   == [source |-> "bootsel", pin |-> 0, taps |-> 2, window |-> 3, timeout |-> 8, valid |-> TRUE]
Three == [source |-> "gpio", pin |-> 7, taps |-> 3, window |-> 3, timeout |-> 7, valid |-> TRUE]
One   == [source |-> "gpio", pin |-> 5, taps |-> 1, window |-> 1, timeout |-> 3, valid |-> TRUE]
Bad   == [source |-> "other", pin |-> 5, taps |-> 0, window |-> 1, timeout |-> 3, valid |-> FALSE]

SomeConfigs == {Off, One, Two, Three, Bad}
================================================================================
