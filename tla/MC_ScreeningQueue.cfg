CONSTANTS
    MaxScreenings = 2
    m1 = m1
    m2 = m2
    m3 = m3
    chat1 = chat1
    chat2 = chat2
    Chats = {chat1}
    Messages = {m1, m2}
    ChatOf <- OneChat
    Users = {u1}
    Scheduler = u1
    Workers = {w1, w2}
    Tokens = {t1, t2, t3}
    MaxAttempts = 2
    MaxMessages = 2
    ProviderCodes = {"jailbreak_blocked"}
    None = None
SYMMETRY Symmetry
SPECIFICATION Spec
INVARIANTS TypeOK ChatsNotSplit TokensFence FindingsOnce ScreenedWhole
PROPERTIES NoLeaseStolen VerdictsFinal
CHECK_DEADLOCK FALSE
