----------------------- MODULE MaintenanceCalendarMC ------------------------
EXTENDS MaintenanceCalendar

Entry(id, creator, allDay, start, end) ==
  [id |-> id, creator |-> creator, homelab |-> TRUE, allDay |-> allDay,
   start |-> start, end |-> end]

\* A window, what it is stretched to (too long to hold alerts), and a stranger's.
MCItems ==
  {Entry(11, "allowed", FALSE, 1, 2), Entry(11, "allowed", FALSE, 0, 3),
   Entry(12, "stranger", FALSE, 1, 3)}

MCProposals ==
  {[start |-> 1, end |-> 2, unreadable |-> FALSE],
   [start |-> 2, end |-> 2, unreadable |-> FALSE]}
=============================================================================
