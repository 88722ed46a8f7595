----------------------------- MODULE MCNotifQueue ------------------------------
EXTENDS NotifQueue

Carries(stamp, timeout, priority) == [stamp |-> stamp, timeout |-> timeout, priority |-> priority]
Setting(order, discard, timeout, priority, max) ==
  [order |-> order, discard |-> discard, timeout |-> timeout, priority |-> priority, max |-> max]
Work(events, told, attributes, settings) ==
  [events |-> events, told |-> told, attributes |-> attributes, qos |-> settings]

\* Stamps that tie or run backwards, headers that are there or not, and
\* priorities on both sides of 0.  Every order policy, policies that agree and
\* that do not, other defaults, limits that are raised and lowered.
AnyWork ==
  Work(4, BOOLEAN,
       {Carries(1, {}, {2}), Carries(2, {0}, {}), Carries(2, {3}, {-1}), Carries(3, {0}, {1})},
       {Setting("Any", "Fifo", 0, 0, 0), Setting("Priority", "Priority", 0, 0, 3),
        Setting("Priority", "Priority", 0, 3, 1), Setting("Deadline", "Fifo", 2, 0, 2),
        Setting("Fifo", "Lifo", 0, 0, 2), Setting("Deadline", "Deadline", 1, 0, 0)})

\* The oldest event has the lowest priority: with the length the limit gives,
\* enough for an entry in the middle of the array to be discarded and replaced
\* by one that belongs above it.
OldestLowest ==
  Work(7, {TRUE},
       {Carries(1, {}, {1}), Carries(2, {}, {2}), Carries(2, {}, {3})},
       {Setting("Priority", "Fifo", 0, 0, 6), Setting("Priority", "Priority", 0, 0, 0)})

AllWork == {AnyWork, OldestLowest}

================================================================================
