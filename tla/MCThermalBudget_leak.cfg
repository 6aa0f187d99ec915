SPECIFICATION BudgetSpec
CONSTANTS
    Agent = {a1, a2, a3}
    Device = {"gpu", "cpu", "npu"}
    Configured = {"gpu", "cpu"}
    MaxAgents <- MCMaxAgents
    NoDevice = "none"
    AuctionInterval = 2
    Rank = {1, 2}
    MaxBids = 2
SYMMETRY Agents
CHECK_DEADLOCK FALSE
INVARIANTS SlotsAccounted
