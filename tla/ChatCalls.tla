------------------------------- MODULE ChatCalls -------------------------------
(***************************************************************************)
(* The methods of the layers that read and manage chats: RetrieverLayer,   *)
(* ControlsLayer, UILayer, ProfileLayer, StatusLayer, the queries of       *)
(* HostLayer and the methods of Whatsapp (src/api/).  The kinds of step    *)
(* are those of SenderCalls, and four more:                                *)
(*   attempt  a query whose failure is answered with null                  *)
(*   poll     the media is requested until the answer is 200, in node      *)
(*   retry    the media is requested three times at most, in node          *)
(*   pipe     the encrypted file is read, decrypted and written, in node   *)
(***************************************************************************)
EXTENDS SenderCalls

\* getSessionTokenBrowser asks isMultiDevice and reads the storage of the page.
ChatReaders ==
  [getListMutes            |-> Query,
   getSessionTokenBrowser  |-> <<"query", "attempt">>,
   getTheme                |-> Query,
   getBlockList            |-> Query,
   getAllChats             |-> Query,
   listChats               |-> Query,
   checkNumberStatus       |-> Query]

\* loadEarlierMessages answers false for a chat it does not find.
ContactReaders ==
  [getAllChatsWithMessages |-> Query,
   getAllGroups            |-> Query,
   getAllBroadcastList     |-> Query,
   getContact              |-> Query,
   getAllContacts          |-> Query,
   getChatById             |-> Query,
   getChat                 |-> Query,
   getProfilePicFromServer |-> Query,
   loadEarlierMessages     |-> May]

\* getUnreadMessages marks what it returns as read, if there is any.
MessageReaders ==
  [getStatus                   |-> Query,
   getNumberProfile            |-> Query,
   getUnreadMessages           |-> May,
   getAllUnreadMessages        |-> Query,
   getAllNewMessages           |-> Query,
   getAllMessagesInChat        |-> Query,
   loadAndGetAllMessagesInChat |-> May]

DetailReaders ==
  [getChatIsOnline        |-> Query,
   getLastSeen            |-> Query,
   getPlatformFromMessage |-> Query,
   getReactions           |-> Query,
   getVotes               |-> Query,
   getGroupSizeLimit      |-> Query,
   getOrder               |-> Query,
   getCommonGroups        |-> Query]

\* pinChat looks the chat up first when it is told that the chat may not exist;
\* deleteChat and clearChat resolve to false unless the status is 200.
ChatControls ==
  [unblockContact    |-> Act,
   blockContact      |-> Act,
   markUnseenMessage |-> Act,
   deleteChat        |-> May,
   archiveChat       |-> Act,
   pinChat           |-> <<"query", "act">>,
   clearChat         |-> May,
   deleteMessage     |-> Act]

\* editMessage compares the body of the fetched message with the new text; starMessages
\* counts messages whose star could not be sent as 0.
MessageControls ==
  [editMessage           |-> <<"act", "query", "verify">>,
   starMessage           |-> May,
   setMessagesAdminsOnly |-> Act,
   setTemporaryMessages  |-> Act,
   setLimit              |-> Act]

\* closeChat answers whether there was a chat to close.
ChatWindows ==
  [openChat      |-> Act,
   openChatAt    |-> Act,
   closeChat     |-> May,
   getActiveChat |-> Query]

\* The page answers an error instead of the mute, and sendMute throws it; setTheme answers
\* nothing for a theme it does not know.
ProfileControls ==
  [sendMute               |-> Act,
   setTheme               |-> May,
   setProfileStatus       |-> <<"ignore">>,
   getProfileStatus       |-> Query,
   setProfilePic          |-> <<"read", "mime", "convert", "act">>,
   setProfileName         |-> Act,
   getProfileName         |-> Query,
   removeMyProfilePicture |-> Act]

StatusSenders ==
  [sendImageStatus |-> <<"read", "mime", "ignore">>,
   sendVideoStatus |-> <<"read", "ignore">>,
   sendTextStatus  |-> <<"ignore">>,
   sendReadStatus  |-> <<"ignore">>]

HostQueries ==
  [getHostDevice      |-> Query,
   getWid             |-> Query,
   getWAVersion       |-> <<"attempt", "query">>,
   getWAJSVersion     |-> <<"attempt", "query">>,
   getConnectionState |-> Query,
   isConnected        |-> Query,
   isOnline           |-> Query,
   isLoggedIn         |-> Query,
   getBatteryLevel    |-> Query,
   startPhoneWatchdog |-> Act,
   stopPhoneWatchdog  |-> Act,
   isMultiDevice      |-> Query,
   isMainReady        |-> Query,
   isAuthenticated    |-> Query,
   isMainLoaded       |-> Query,
   isMainInit         |-> Query,
   joinWebBeta        |-> Act]

\* Both skip the ids that are as they should be and answer how many were not.
PresenceSubscriptions ==
  [subscribePresence   |-> May,
   unsubscribePresence |-> May]

ClientCalls ==
  [downloadFile   |-> Query,
   downloadMedia  |-> Query,
   takeScreenshot |-> Query,
   useHere        |-> Act,
   logout         |-> Act]

\* rejectCall answers how many calls it rejected.
MediaCalls ==
  [getMessageById     |-> Query,
   getMessages        |-> Query,
   decryptFile        |-> <<"poll", "convert">>,
   decryptAndSaveFile |-> <<"retry", "pipe">>,
   rejectCall         |-> May]
==============================================================================
