SPECIFICATION Spec
CONSTANTS
    Handlers = {h1, h2}
    MaxFaults = 1
    Challenges = {1}
    OTPMaxAttempts = 2
    NDevices = 3
    NSessions = 2
    NLinks = 2
    MaxDevicesPerUser = 2
    MaxTokens = 3
    KeyDevices = {u1, u2}
    KeyIds = {1, 2}
    PasskeyChallenges = {1, 2, 3}
    Creds = {1, 2}
    MaxCredsPerUser = 1
    MaxCount = 1
    Users = {u1, u2, 3}
    MaxMembers = 2
    MaxUses = 1
    PublicUsers = {u1, u2}
    CommunityHandlers = {h1, h2, 3}
    Groups = {1}
    CommunityEvents = {1}
    Posts = {1}
    MaxMarks = 1
    MaxCharges = 1
    Payments = {1, 2}
    Linked = {1}
SYMMETRY Symmetry
INVARIANTS
    LoginSound
    AccountSound
    KeysSound
    GroupsSound
    
    
    
CHECK_DEADLOCK FALSE
