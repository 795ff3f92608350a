------------------------------- MODULE MCDevices -------------------------------
EXTENDS Devices

MCControls == {"k", "t", "u"}

MCProfileOf == [c \in MCControls |-> IF c = "k" THEN "key" ELSE "touch"]

\* Every Spec of level 1 declares the key and the contacts.
MCRank == [c \in MCControls |-> 1]

\* A phone with a keyboard and a touchscreen of one contact; one with two, and with
\* a keyboard of more keys.
Small == Setup([key |-> 1, touch |-> 1], 1)
Large == Setup([key |-> 2, touch |-> 2], 1)

MCSelections == {<<Small, Large>>}

\* One that fails validation, and one without a keyboard.
MCWanted == {Large, Setup([key |-> 0, touch |-> 9], 0)}

MCRefusals == {{}, {"key"}}

MCRows == {Set(c, v) : c \in {"t"}, v \in {0, 1}}

MCInputs == {Set(c, v) : c \in {"t", "u"}, v \in {0, 1}}

MCTargets == {{Set("k", 1), Set("t", 1)}}
=============================================================================
