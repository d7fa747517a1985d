SPECIFICATION FairSpec
CONSTANTS
    tab1 = tab1
    tab2 = tab2
    terminal = terminal
    server = server
    shell = shell
    Nothing = Nothing
    Run = {tab1, tab2, terminal}
    Process = {server, shell}
    ProcessOf <- Processes
    Job = {tab1, tab2}
    TURN = 2
    ASKED_EVERY = 2
    Mortal = {shell}
    Forcing = {terminal}
INVARIANTS
    Exclusive
PROPERTIES
    TurnComes
    WorkGivesBack
